---- MODULE Spec2Model ----
(***************************************************************************)
(* Verification model of PDF_Translate (hiep1810/HIN_EN_PDF_Translator).   *)
(*                                                                         *)
(* Lengths are integers on a grid of page units.  A quotient the code      *)
(* computes in floating point is kept as an exact fraction <<num, den>>    *)
(* with den > 0 and compared by cross-multiplication; a rectangle centre   *)
(* is kept doubled (<<x0+x1, y0+y1>>) so that it stays an integer.         *)
(*                                                                         *)
(* The module holds one specification per component:                       *)
(*   SpecIoU    utils.rect_iou                                             *)
(*   SpecStyle  textlayer.transfer_style_from_original                     *)
(*   SpecTable  hybrid.is_table_like, hybrid.build_columns and the column   *)
(*              choice of run_mode's hybrid placement                       *)
(*   SpecRun    pipeline.run_mode from the extracted units to the save,     *)
(*              with the worker pool of batch_translate_text               *)
(*   SpecBoundary  translate_text and the providers' translate methods,    *)
(*              alone and inside the runs of SpecRun                       *)
(*   SpecFit    utils.calculate_fitting_fontsize and utils.insert_text_fit *)
(*   SpecFill   utils.pick_redact_fill_for_color                           *)
(*   SpecErase  pipeline.erase_original_text and run_mode's erase sections *)
(*   SpecLayout hybrid.extract_blocks_from_layout                          *)
(*   SpecFont   font_matcher.FontMatcher                                   *)
(*   SpecSegment  the line body of hybrid.extract_blocks_with_segments     *)
(*   SpecAggregate  textlayer.derive_line_styles_from_spans and            *)
(*              derive_block_styles_from_spans                             *)
(*   SpecPipeline  pipeline.run_mode from its erase section to the save    *)
(*   SpecAll    pipeline.run_mode in mode 'all'                            *)
(*   SpecLang   utils.choose_langs and the direction code of run_mode      *)
(***************************************************************************)
EXTENDS Integers, Sequences, FiniteSets, TLC

VARIABLES
  qa, qb, iouOut,                 \* rect_iou: the two arguments, the results
  spans, orig_index, styled,      \* style transfer: units, StyleIndex, done flag
  hb, tableOut,                   \* TableSegmenter: a HybridBlock, the results
  mode, translator,               \* run_mode: its arguments,
  units, hblocks, overlay_items,  \*   the units it extracted or was given,
  requests, map_back, indices,    \*   the batch and its way back to the units,
  futs, arrival, results,         \*   the worker pool's futures and their yield,
  page_ops, pc,                   \*   the draws on the output pages, position
  trCall, trOut,                  \* a call at the translation boundary, its yield
  fitIn, fitOut,                  \* TextFitter: the arguments of a call, its yield
  fillIn, fillOut,                \* EraseFillPicker: a colour, the fill chosen
  eraseIn, eraseOut,              \* erase step: its arguments, the page calls
  layIn, layOut,                  \* AI-layout extraction: a page, the blocks
  fontIn, fontOut,                \* FontMatcher: font files and a call, its yield
  segIn, segOut,                  \* segment splitting: a raw line, its HybridLine
  aggIn, aggOut,                  \* style aggregation: units and spans, the result
  allIn, allOut,                  \* 'all' mode: sub-run outcomes, the runs and the zip
  langIn, langOut                 \* translation direction: a text, the pairs chosen

iouVars   == <<qa, qb, iouOut>>
styleVars == <<spans, orig_index, styled>>
tableVars == <<hb, tableOut>>
runVars   == <<mode, translator, units, hblocks, overlay_items, requests,
               map_back, indices, futs, arrival, results, page_ops, pc>>
trVars    == <<trCall, trOut>>
fitVars   == <<fitIn, fitOut>>
fillVars  == <<fillIn, fillOut>>
eraseVars == <<eraseIn, eraseOut>>
layVars   == <<layIn, layOut>>
fontVars  == <<fontIn, fontOut>>
segVars   == <<segIn, segOut>>
aggVars   == <<aggIn, aggOut>>
allVars   == <<allIn, allOut>>
langVars  == <<langIn, langOut>>
vars      == <<iouVars, styleVars, tableVars, runVars, trVars, fitVars, fillVars,
               eraseVars, layVars, fontVars, segVars, aggVars, allVars, langVars>>

\* The values of a component's variables in the specifications of the others.
IdleIoU == qa = <<0, 0, 0, 0>> /\ qb = <<0, 0, 0, 0>>
           /\ iouOut = [called |-> FALSE, ab |-> <<0, 1>>, ba |-> <<0, 1>>]

IdleStyle == spans = <<>> /\ orig_index = <<>> /\ styled = FALSE

NoTableOut == [step |-> 0, table_like |-> FALSE, cols |-> <<>>,
               seg |-> <<0, 0>>, col |-> <<0, 0>>]

IdleTable == hb = <<>> /\ tableOut = NoTableOut

NoTrCall == [fn |-> "", text |-> <<>>, svc |-> [kind |-> "", out |-> <<>>]]
NoTrOut  == [called |-> FALSE, raised |-> FALSE, value |-> <<>>]

IdleTranslate == trCall = NoTrCall /\ trOut = NoTrOut

NoFitOut == [fn |-> "", size |-> <<0, 1>>, result |-> FALSE, draws |-> <<>>,
             attempts |-> 0, tries |-> <<>>]

IdleFit == fitIn = <<>> /\ fitOut = NoFitOut

NoFillOut == [called |-> FALSE, fill |-> <<>>]

IdleFill == fillIn = <<>> /\ fillOut = NoFillOut

NoEraseOut == [called |-> FALSE, log |-> <<>>, raised |-> FALSE]

IdleErase == eraseIn = <<>> /\ eraseOut = NoEraseOut

NoLayOut == [called |-> FALSE, blocks |-> <<>>]

IdleLayout == layIn = <<>> /\ layOut = NoLayOut

NoFontOut == [called |-> FALSE, font_name |-> <<>>, font_path |-> <<>>]

IdleFont == fontIn = <<>> /\ fontOut = NoFontOut

NoSegOut == [called |-> FALSE, line |-> <<>>]

IdleSeg == segIn = <<>> /\ segOut = NoSegOut

NoAggOut == [called |-> FALSE, units |-> <<>>]

IdleAgg == aggIn = <<>> /\ aggOut = NoAggOut

NoAllOut == [pc |-> "idle", runs |-> <<>>, outputs |-> <<>>, zip |-> <<>>,
             zipped |-> FALSE, raised |-> FALSE, disk |-> {}, opened |-> 0]

IdleAll == allIn = <<>> /\ allOut = NoAllOut

NoLangOut == [called |-> FALSE, site |-> "", pair |-> <<>>]

IdleLang == langIn = <<>> /\ langOut = NoLangOut

IdleRun ==
  /\ mode = "" /\ translator = "" /\ pc = "idle"
  /\ units = <<>> /\ hblocks = <<>> /\ overlay_items = <<>>
  /\ requests = <<>> /\ map_back = <<>> /\ indices = <<>>
  /\ futs = <<>> /\ arrival = <<>> /\ results = <<>> /\ page_ops = <<>>

(***************************************************************************)
(* Bounds of the model.                                                    *)
(***************************************************************************)
MaxCoord == 3      \* rect_iou is explored on the grid 0..MaxCoord
MaxCands == 2      \* StyleRecords on a page
MaxSpans == 2      \* spans handed to transfer_style_from_original
MaxLines == 3      \* lines of a HybridBlock
MaxTallLines == 8  \* lines of a tall HybridBlock
MaxRequests == 4   \* units of a run, hence requests of its batch
MaxStr == 2        \* characters of a service answer
MaxRects == 3      \* rects handed to an erase step

(***************************************************************************)
(* Program constants.                                                      *)
(***************************************************************************)
EpsInv     == 1000000000   \* 1 / 1e-9, the floor of the union in rect_iou
IOU_HI_PCT == 80           \* iou_hi = 0.80
IOU_LO_PCT == 10           \* iou_lo = 0.10
TOL        == 8            \* tol = 8.0, the column-band merge tolerance
IOU_BLOCK_PCT == 40        \* rect_iou(bl.rect, sp.rect) > 0.4
IOU_LINE_PCT == 50         \* rect_iou(ln.rect, sp.rect) > 0.5
MW_GOOGLE  == 1            \* mw = 1 for a GoogleTranslator
MW_OTHER   == 5            \* mw = 5 otherwise; also the default max_workers

Max(a, b) == IF a >= b THEN a ELSE b
Min(a, b) == IF a <= b THEN a ELSE b

(***************************************************************************)
(* GeometryKernel (utils.py).  A rect is <<x0, y0, x1, y1>>.               *)
(***************************************************************************)
Area(r) == (r[3] - r[1]) * (r[4] - r[2])

\* A slip of rect_iou: the intersection is not subtracted from the union.
rect_iou_union_sum(a, b) ==
  LET w     == Max(0, Min(a[3], b[3]) - Max(a[1], b[1]))
      h     == Max(0, Min(a[4], b[4]) - Max(a[2], b[2]))
      inter == w * h
      union == Area(a) + Area(b)
  IN  IF inter <= 0 THEN <<0, 1>>
      ELSE IF union >= 1 THEN <<inter, union>> ELSE <<inter * EpsInv, 1>>

\* rect_iou(a, b) as the fraction inter / max(1e-9, union).
rect_iou(a, b) ==
  LET ix0   == Max(a[1], b[1])
      iy0   == Max(a[2], b[2])
      ix1   == Min(a[3], b[3])
      iy1   == Min(a[4], b[4])
      w     == Max(0, ix1 - ix0)
      h     == Max(0, iy1 - iy0)
      inter == w * h
      union == Area(a) + Area(b) - inter
  IN  IF inter <= 0 THEN <<0, 1>>
      ELSE IF union >= 1 THEN <<inter, union>> ELSE <<inter * EpsInv, 1>>

\* Comparisons of fractions with positive denominators.
FracGT(p, q) == p[1] * q[2] > q[1] * p[2]
FracEQ(p, q) == p[1] * q[2] = q[1] * p[2]
FracGEPct(p, pct) == p[1] * 100 >= pct * p[2]

\* rect_center, doubled.
rect_center(r) == <<r[1] + r[3], r[2] + r[4]>>

\* point_in_rect for a doubled point.
point_in_rect(pt, r) ==
  /\ 2 * r[1] <= pt[1] /\ pt[1] <= 2 * r[3]
  /\ 2 * r[2] <= pt[2] /\ pt[2] <= 2 * r[4]

\* center_dist, as four times its square (the square root is monotone).
center_dist(a, b) ==
  LET c == rect_center(a)
      d == rect_center(b)
  IN  (c[1] - d[1]) * (c[1] - d[1]) + (c[2] - d[2]) * (c[2] - d[2])

(***************************************************************************)
(* StyleMatcher (textlayer.transfer_style_from_original).                  *)
(*                                                                         *)
(* A span is [page, rect, text, fontsize, color, font, flags]; a           *)
(* StyleRecord is [bbox, color, size, font, flags].  Sizes are in tenths   *)
(* of a point.  orig_index maps a page to its sequence of StyleRecords; a  *)
(* page that is no key of it has no candidates (dict.get(page, [])).       *)
(***************************************************************************)
Candidates(index, page) == IF page \in DOMAIN index THEN index[page] ELSE <<>>

\* The four assignments sp.color, sp.fontsize, sp.font, sp.flags = ...
Adopt(sp, c) ==
  [sp EXCEPT !.color = c.color, !.fontsize = c.size, !.font = c.font, !.flags = c.flags]

\* The scan "for cand in candidates: if iou > best_iou: ..." from position i
\* on; best is a position of cands (0 for None).
RECURSIVE best_scan(_, _, _, _, _)
best_scan(rect, cands, i, best, best_iou) ==
  IF i > Len(cands) THEN <<best, best_iou>>
  ELSE LET iou == rect_iou(rect, cands[i]["bbox"])
       IN  IF FracGT(iou, best_iou)
           THEN best_scan(rect, cands, i + 1, i, iou)
           ELSE best_scan(rect, cands, i + 1, best, best_iou)

\* Python's min(items, key=...) over positions: the first minimal one.
min_area(cands, S) ==
  CHOOSE i \in S : \A j \in S :
    \/ Area(cands[i]["bbox"]) < Area(cands[j]["bbox"])
    \/ Area(cands[i]["bbox"]) = Area(cands[j]["bbox"]) /\ i <= j

min_dist(rect, cands) ==
  CHOOSE i \in DOMAIN cands : \A j \in DOMAIN cands :
    \/ center_dist(rect, cands[i]["bbox"]) < center_dist(rect, cands[j]["bbox"])
    \/ center_dist(rect, cands[i]["bbox"]) = center_dist(rect, cands[j]["bbox"]) /\ i <= j

\* A slip of the ladder: the 0.10 step is tried before the containment step.
transfer_one_lo_first(sp, candidates) ==
  IF candidates = <<>> THEN sp
  ELSE
    LET bs       == best_scan(sp.rect, candidates, 1, 0, <<-1, 1>>)
        best     == bs[1]
        best_iou == bs[2]
        c        == rect_center(sp.rect)
        inside   == {i \in DOMAIN candidates : point_in_rect(c, candidates[i]["bbox"])}
    IN  IF best # 0 /\ FracGEPct(best_iou, IOU_HI_PCT) THEN Adopt(sp, candidates[best])
        ELSE IF best # 0 /\ FracGEPct(best_iou, IOU_LO_PCT) THEN Adopt(sp, candidates[best])
        ELSE IF inside # {} THEN Adopt(sp, candidates[min_area(candidates, inside)])
        ELSE Adopt(sp, candidates[min_dist(sp.rect, candidates)])

\* A slip of the exact-match step: the scan keeps the last of several
\* candidates of equal IoU (>= instead of >).
transfer_one_last_best(sp, candidates) ==
  IF candidates = <<>> THEN sp
  ELSE
    LET I        == DOMAIN candidates
        iou(i)   == rect_iou(sp.rect, candidates[i]["bbox"])
        best     == CHOOSE i \in I : \A j \in I :
                      FracGT(iou(i), iou(j)) \/ (FracEQ(iou(i), iou(j)) /\ i >= j)
        best_iou == iou(best)
        c        == rect_center(sp.rect)
        inside   == {i \in I : point_in_rect(c, candidates[i]["bbox"])}
    IN  IF FracGEPct(best_iou, IOU_HI_PCT) THEN Adopt(sp, candidates[best])
        ELSE IF inside # {} THEN Adopt(sp, candidates[min_area(candidates, inside)])
        ELSE IF FracGEPct(best_iou, IOU_LO_PCT) THEN Adopt(sp, candidates[best])
        ELSE Adopt(sp, candidates[min_dist(sp.rect, candidates)])

\* A slip of the containment step: the largest containing candidate is taken.
transfer_one_max_area(sp, candidates) ==
  IF candidates = <<>> THEN sp
  ELSE
    LET bs       == best_scan(sp.rect, candidates, 1, 0, <<-1, 1>>)
        best     == bs[1]
        best_iou == bs[2]
        c        == rect_center(sp.rect)
        inside   == {i \in DOMAIN candidates : point_in_rect(c, candidates[i]["bbox"])}
        largest  == CHOOSE i \in inside : \A j \in inside :
                      Area(candidates[i]["bbox"]) >= Area(candidates[j]["bbox"])
    IN  IF best # 0 /\ FracGEPct(best_iou, IOU_HI_PCT) THEN Adopt(sp, candidates[best])
        ELSE IF inside # {} THEN Adopt(sp, candidates[largest])
        ELSE IF best # 0 /\ FracGEPct(best_iou, IOU_LO_PCT) THEN Adopt(sp, candidates[best])
        ELSE Adopt(sp, candidates[min_dist(sp.rect, candidates)])

\* A slip of the empty-candidates guard: a style is invented.
transfer_one_invents(sp, candidates) ==
  IF candidates = <<>>
  THEN [sp EXCEPT !.color = "black", !.fontsize = 100, !.font = "helv", !.flags = 0]
  ELSE Adopt(sp, candidates[1])

\* One iteration of "for sp in spans" (textlayer.py:51-74).
transfer_one(sp, candidates) ==
  IF candidates = <<>> THEN sp
  ELSE
    LET bs       == best_scan(sp.rect, candidates, 1, 0, <<-1, 1>>)
        best     == bs[1]
        best_iou == bs[2]
        c        == rect_center(sp.rect)
        inside   == {i \in DOMAIN candidates : point_in_rect(c, candidates[i]["bbox"])}
    IN  IF best # 0 /\ FracGEPct(best_iou, IOU_HI_PCT) THEN Adopt(sp, candidates[best])
        ELSE IF inside # {} THEN Adopt(sp, candidates[min_area(candidates, inside)])
        ELSE IF best # 0 /\ FracGEPct(best_iou, IOU_LO_PCT) THEN Adopt(sp, candidates[best])
        ELSE Adopt(sp, candidates[min_dist(sp.rect, candidates)])

transfer_style_from_original(sps, index) ==
  [i \in DOMAIN sps |-> transfer_one(sps[i], Candidates(index, sps[i].page))]

(***************************************************************************)
(* SpecStyle: transfer_style_from_original applied to freshly extracted    *)
(* spans (default style) and a StyleIndex holding candidates for page 0    *)
(* only.  The k-th StyleRecord of a page carries the k-th style of         *)
(* StylePalette, so two records never share a style.                       *)
(***************************************************************************)
SpanRects == {<<1, 1, 18, 18>>, <<0, 0, 20, 20>>, <<1, 1, 1, 1>>}

CandRects ==
  {<<1, 1, 18, 18>>, <<0, 0, 19, 19>>, <<0, 0, 20, 20>>, <<0, 0, 20, 19>>,
   <<0, 0, 20, 16>>, <<0, 0, 20, 10>>, <<18, 0, 20, 20>>, <<1, 1, 1, 1>>,
   <<1, 1, 18, 1>>}

StylePalette ==
  << [color |-> "red",   size |-> 90,  font |-> "Times-Bold",      flags |-> 20],
     [color |-> "blue",  size |-> 120, font |-> "Arial",           flags |-> 0],
     [color |-> "green", size |-> 140, font |-> "Courier-Oblique", flags |-> 10],
     [color |-> "gray",  size |-> 70,  font |-> "Symbol",          flags |-> 1] >>

StyleRecord(k, bbox) ==
  [bbox |-> bbox, color |-> StylePalette[k].color, size |-> StylePalette[k].size,
   font |-> StylePalette[k].font, flags |-> StylePalette[k].flags]

\* A span as extract_spans_from_textlayer leaves it when the text layer
\* carries no style of its own (textlayer.py:111-115).
FreshSpan(page, rect) ==
  [page |-> page, rect |-> rect, text |-> "t", fontsize |-> 115,
   color |-> "black", font |-> "helv", flags |-> 0]

FreshSpans == {FreshSpan(p, r) : p \in {0, 1}, r \in SpanRects}

InitStyle ==
  /\ spans \in UNION {[1..n -> FreshSpans] : n \in 1..MaxSpans}
  /\ \E n \in 0..MaxCands : \E bs \in [1..n -> CandRects] :
       orig_index = [p \in {0} |-> [k \in 1..n |-> StyleRecord(k, bs[k])]]
  /\ styled = FALSE
  /\ IdleIoU
  /\ IdleTable
  /\ IdleRun
  /\ IdleTranslate
  /\ IdleFit
  /\ IdleFill
  /\ IdleErase
  /\ IdleLayout
  /\ IdleFont
  /\ IdleSeg
  /\ IdleAgg
  /\ IdleAll
  /\ IdleLang

Transfer ==
  /\ ~styled
  /\ spans' = transfer_style_from_original(spans, orig_index)
  /\ styled' = TRUE
  /\ UNCHANGED orig_index
  /\ UNCHANGED <<iouVars, tableVars, runVars, trVars, fitVars, fillVars,
                 eraseVars, layVars, fontVars, segVars, aggVars, allVars,
                 langVars>>

NextStyle == Transfer

SpecStyle == InitStyle /\ [][NextStyle]_vars

HasStyleOf(sp, c) ==
  sp.color = c.color /\ sp.fontsize = c.size /\ sp.font = c.font /\ sp.flags = c.flags

IoUOf(rect, c) == rect_iou(rect, c["bbox"])

\* The candidates of maximal IoU with rect.
MaxIoUSet(rect, cs) ==
  {k \in DOMAIN cs : \A j \in DOMAIN cs : ~FracGT(IoUOf(rect, cs[j]), IoUOf(rect, cs[k]))}

InsideSet(rect, cs) ==
  {k \in DOMAIN cs : point_in_rect(rect_center(rect), cs[k]["bbox"])}

\* The candidates the ladder of C1 allows for rect (several on a tie).
LadderSet(rect, cs) ==
  LET top    == MaxIoUSet(rect, cs)
      inside == InsideSet(rect, cs)
  IN  IF \E k \in top : FracGEPct(IoUOf(rect, cs[k]), 80) THEN top
      ELSE IF inside # {}
        THEN {k \in inside : \A j \in inside : Area(cs[k]["bbox"]) <= Area(cs[j]["bbox"])}
      ELSE IF \E k \in top : FracGEPct(IoUOf(rect, cs[k]), 10) THEN top
      ELSE {k \in DOMAIN cs : \A j \in DOMAIN cs :
              center_dist(rect, cs[k]["bbox"]) <= center_dist(rect, cs[j]["bbox"])}

\* C1: for every span and every non-empty candidate set of its page, the
\* style adopted is that of a candidate chosen by the ladder: (1) the max-IoU
\* candidate if its IoU >= 0.80; (2) else the smallest-area candidate that
\* contains the span's centroid; (3) else the max-IoU candidate if its IoU
\* >= 0.10; (4) else the candidate of minimum centroid distance.
C1_Ladder ==
  styled =>
    \A i \in DOMAIN spans :
      LET cs == Candidates(orig_index, spans[i].page)
      IN  cs # <<>> =>
            \E k \in LadderSet(spans[i].rect, cs) : HasStyleOf(spans[i], cs[k])

\* Which step of the ladder decides rect among cs (cs not empty).
LadderStep(rect, cs) ==
  LET top == MaxIoUSet(rect, cs)
  IN  IF \E k \in top : FracGEPct(IoUOf(rect, cs[k]), 80) THEN 1
      ELSE IF InsideSet(rect, cs) # {} THEN 2
      ELSE IF \E k \in top : FracGEPct(IoUOf(rect, cs[k]), 10) THEN 3
      ELSE 4

\* Witness of C1: a styled span decided by step 3 among two candidates, the
\* one below 0.10 coming first.
C1_Witness ==
  /\ styled
  /\ \E i \in DOMAIN spans :
       LET cs == Candidates(orig_index, spans[i].page)
       IN  /\ Len(cs) = 2
           /\ LadderStep(spans[i].rect, cs) = 3
           /\ ~FracGEPct(IoUOf(spans[i].rect, cs[1]), 10)
           /\ HasStyleOf(spans[i], cs[2])

\* C3 (as stated): a span whose rect equals the bbox of some StyleRecord c of
\* its page has exactly the style of c after the transfer.
C3_AsStated ==
  styled =>
    \A i \in DOMAIN spans :
      LET cs == Candidates(orig_index, spans[i].page)
      IN  \A k \in DOMAIN cs :
            spans[i].rect = cs[k]["bbox"] => HasStyleOf(spans[i], cs[k])

\* C3 (amended): a span whose rect has positive area and equals the bbox of
\* a StyleRecord of its page has exactly the style of the first record of the
\* page with that bbox, whatever the other candidates.
C3_ExactMatch ==
  styled =>
    \A i \in DOMAIN spans :
      LET cs == Candidates(orig_index, spans[i].page)
      IN  \A k \in DOMAIN cs :
            /\ spans[i].rect = cs[k]["bbox"]
            /\ Area(spans[i].rect) > 0
            /\ \A j \in 1..(k - 1) : cs[j]["bbox"] # cs[k]["bbox"]
            => HasStyleOf(spans[i], cs[k])

\* Witness of C3: a styled span of positive area equal to the bbox of the
\* second record, the first record being a smaller rect around its centroid.
C3_Witness ==
  /\ styled
  /\ \E i \in DOMAIN spans :
       LET cs == Candidates(orig_index, spans[i].page)
       IN  /\ Len(cs) = 2
           /\ spans[i].rect = cs[2]["bbox"]
           /\ Area(spans[i].rect) > 0
           /\ cs[1]["bbox"] # cs[2]["bbox"]
           /\ point_in_rect(rect_center(spans[i].rect), cs[1]["bbox"])
           /\ Area(cs[1]["bbox"]) < Area(cs[2]["bbox"])
           /\ HasStyleOf(spans[i], cs[2])

StrictlyInside(r, b) == b[1] < r[1] /\ b[2] < r[2] /\ r[3] < b[3] /\ r[4] < b[4]

\* The case of C4: exactly two candidates, of different area, the span rect
\* strictly inside both.
NestedInTwo(rect, cs) ==
  /\ Len(cs) = 2
  /\ StrictlyInside(rect, cs[1]["bbox"])
  /\ StrictlyInside(rect, cs[2]["bbox"])
  /\ Area(cs[1]["bbox"]) # Area(cs[2]["bbox"])

\* C4: a span rect nested strictly inside two candidates of different area
\* (and no other candidate) adopts the style of the smaller-area candidate,
\* whatever the candidates' order and whichever step fires.
C4_Nested ==
  styled =>
    \A i \in DOMAIN spans :
      LET cs == Candidates(orig_index, spans[i].page)
      IN  NestedInTwo(spans[i].rect, cs) =>
            \A k \in {1, 2} :
              Area(cs[k]["bbox"]) < Area(cs[3 - k]["bbox"]) => HasStyleOf(spans[i], cs[k])

\* Witness of C4: the containment step decided a nested span of positive
\* area, the smaller candidate being the second of the page.
C4_Witness ==
  /\ styled
  /\ \E i \in DOMAIN spans :
       LET cs == Candidates(orig_index, spans[i].page)
       IN  /\ NestedInTwo(spans[i].rect, cs)
           /\ Area(spans[i].rect) > 0
           /\ LadderStep(spans[i].rect, cs) = 2
           /\ Area(cs[2]["bbox"]) < Area(cs[1]["bbox"])
           /\ HasStyleOf(spans[i], cs[2])

\* C5: the transfer never changes a span's page, rect or text nor the number
\* of spans, and leaves a span whose page has no candidates wholly unchanged.
C5_Frame ==
  [][ /\ DOMAIN spans' = DOMAIN spans
      /\ \A i \in DOMAIN spans :
           /\ spans'[i].page = spans[i].page
           /\ spans'[i].rect = spans[i].rect
           /\ spans'[i].text = spans[i].text
           /\ (Candidates(orig_index, spans[i].page) = <<>> => spans'[i] = spans[i]) ]_vars

\* Witness of C5: after the transfer a span of a page without candidates
\* still has its default style while a span of the other page was restyled.
C5_Witness ==
  /\ styled
  /\ \E i, j \in DOMAIN spans :
       /\ Candidates(orig_index, spans[i].page) = <<>>
       /\ spans[i] = FreshSpan(spans[i].page, spans[i].rect)
       /\ Candidates(orig_index, spans[j].page) # <<>>
       /\ spans[j] # FreshSpan(spans[j].page, spans[j].rect)

(***************************************************************************)
(* SpecIoU: rect_iou applied to every pair of rects of the grid.           *)
(***************************************************************************)
GridRects ==
  {r \in (0..MaxCoord) \X (0..MaxCoord) \X (0..MaxCoord) \X (0..MaxCoord) :
     r[1] <= r[3] /\ r[2] <= r[4]}

InitIoU ==
  /\ qa \in GridRects
  /\ qb \in GridRects
  /\ iouOut = [called |-> FALSE, ab |-> <<0, 1>>, ba |-> <<0, 1>>]
  /\ IdleStyle
  /\ IdleTable
  /\ IdleRun
  /\ IdleTranslate
  /\ IdleFit
  /\ IdleFill
  /\ IdleErase
  /\ IdleLayout
  /\ IdleFont
  /\ IdleSeg
  /\ IdleAgg
  /\ IdleAll
  /\ IdleLang

CallRectIou ==
  /\ ~iouOut.called
  /\ iouOut' = [called |-> TRUE, ab |-> rect_iou(qa, qb), ba |-> rect_iou(qb, qa)]
  /\ UNCHANGED <<qa, qb>>
  /\ UNCHANGED <<styleVars, tableVars, runVars, trVars, fitVars, fillVars,
                 eraseVars, layVars, fontVars, segVars, aggVars, allVars,
                 langVars>>

NextIoU == CallRectIou

SpecIoU == InitIoU /\ [][NextIoU]_vars

Disjoint(a, b) == a[3] < b[1] \/ b[3] < a[1] \/ a[4] < b[2] \/ b[4] < a[2]

\* C2 (as stated): rect_iou is symmetric, lies in [0,1], is 1 for identical
\* rects and 0 for disjoint rects, for all rects with x0<=x1 and y0<=y1.
C2_AsStated ==
  iouOut.called =>
    /\ FracEQ(iouOut.ab, iouOut.ba)
    /\ 0 <= iouOut.ab[1] /\ iouOut.ab[1] <= iouOut.ab[2]
    /\ (qa = qb => iouOut.ab[1] = iouOut.ab[2])
    /\ (Disjoint(qa, qb) => iouOut.ab[1] = 0)

\* C2 (amended): rect_iou is symmetric, lies in [0,1], is 0 for disjoint
\* rects, is 1 for identical rects of positive area and 0 for identical
\* rects of zero area.
C2_RectIou ==
  iouOut.called =>
    /\ FracEQ(iouOut.ab, iouOut.ba)
    /\ 0 <= iouOut.ab[1] /\ iouOut.ab[1] <= iouOut.ab[2]
    /\ (qa = qb /\ Area(qa) > 0 => iouOut.ab[1] = iouOut.ab[2])
    /\ (qa = qb /\ Area(qa) = 0 => iouOut.ab[1] = 0)
    /\ (Disjoint(qa, qb) => iouOut.ab[1] = 0)

\* Witness of C2: rect_iou has been applied to two identical rects of positive
\* area, and (in another run) to two overlapping different rects.
C2_Witness ==
  /\ iouOut.called
  /\ qa = qb
  /\ Area(qa) > 0
  /\ iouOut.ab = <<Area(qa), Area(qa)>>

(***************************************************************************)
(* TableSegmenter: hybrid.is_table_like and hybrid.build_columns.          *)
(* Coordinates are whole points.  A band is a pair <<x0, x1>>.             *)
(***************************************************************************)

\* bands.append((seg.rect[0], seg.rect[2])) for every segment of every line,
\* in line order then segment order.
RECURSIVE line_bands(_, _)
line_bands(segments, k) ==
  IF k > Len(segments) THEN <<>>
  ELSE <<<<segments[k].rect[1], segments[k].rect[3]>>>>
         \o line_bands(segments, k + 1)

RECURSIVE collect_bands(_, _)
collect_bands(lines, l) ==
  IF l > Len(lines) THEN <<>>
  ELSE line_bands(lines[l].segments, 1) \o collect_bands(lines, l + 1)

\* Python's tuple order on (x0, x1).
BandLE(a, b) == a[1] < b[1] \/ (a[1] = b[1] /\ a[2] <= b[2])

RECURSIVE insert_band(_, _)
insert_band(sorted, b) ==
  IF sorted = <<>> THEN <<b>>
  ELSE IF BandLE(b, Head(sorted)) THEN <<b>> \o sorted
  ELSE <<Head(sorted)>> \o insert_band(Tail(sorted), b)

\* bands.sort()
RECURSIVE sort_bands(_)
sort_bands(bands) ==
  IF bands = <<>> THEN <<>>
  ELSE insert_band(sort_bands(Tail(bands)), Head(bands))

\* The merge loop, written twice in the source with the same body: a band
\* opens a new column when it starts right of (last right edge - tol), else
\* it extends the last column's right edge.
RECURSIVE merge_bands(_, _, _)
merge_bands(bands, i, merged) ==
  IF i > Len(bands) THEN merged
  ELSE LET x0 == bands[i][1]
           x1 == bands[i][2]
           n  == Len(merged)
       IN IF n = 0 \/ x0 > merged[n][2] - TOL
          THEN merge_bands(bands, i + 1, Append(merged, <<x0, x1>>))
          ELSE merge_bands(bands, i + 1,
                 [merged EXCEPT ![n] = <<merged[n][1], Max(merged[n][2], x1)>>])

\* multi = sum(1 for ln in hb.lines if len(ln.segments) >= 2)
multi_count(blk) ==
  Cardinality({l \in 1..Len(blk.lines) : Len(blk.lines[l].segments) >= 2})

\* Mutant of is_table_like: the column-band criterion is forgotten.
is_table_like_multi_only(blk) ==
  IF blk.lines = <<>> THEN FALSE
  ELSE multi_count(blk) >= Max(2, (3 * Len(blk.lines)) \div 10)

is_table_like(blk) ==
  IF blk.lines = <<>> THEN FALSE
  ELSE IF multi_count(blk) >= Max(2, (3 * Len(blk.lines)) \div 10) THEN TRUE
  ELSE LET bands == collect_bands(blk.lines, 1)
       IN IF bands = <<>> THEN FALSE
          ELSE Len(merge_bands(sort_bands(bands), 1, <<>>)) >= 2

build_columns(blk) ==
  LET bands == collect_bands(blk.lines, 1)
  IN IF bands = <<>> THEN <<<<blk.rect[1], blk.rect[3]>>>>
     ELSE merge_bands(sort_bands(bands), 1, <<>>)

\* key of the column choice: max(0.0, min(seg.x1, c[1]) - max(seg.x0, c[0]))
col_overlap(sx, c) == Max(0, Min(sx[2], c[2]) - Max(sx[1], c[1]))

\* Mutant of best_col: the column of least overlap.
best_col_min(sx, cols) ==
  LET i == CHOOSE i \in 1..Len(cols) :
             /\ \A j \in 1..Len(cols) :
                  col_overlap(sx, cols[j]) >= col_overlap(sx, cols[i])
             /\ \A j \in 1..(i - 1) :
                  col_overlap(sx, cols[j]) > col_overlap(sx, cols[i])
  IN cols[i]

\* best_col = max(cols, key=overlap): the first column of greatest overlap.
best_col(sx, cols) ==
  LET i == CHOOSE i \in 1..Len(cols) :
             /\ \A j \in 1..Len(cols) :
                  col_overlap(sx, cols[j]) <= col_overlap(sx, cols[i])
             /\ \A j \in 1..(i - 1) :
                  col_overlap(sx, cols[j]) < col_overlap(sx, cols[i])
  IN cols[i]

(***************************************************************************)
(* SpecTable: a HybridBlock as extract_blocks_with_segments builds it      *)
(* (lines of one or two segments, two segments of a line more than SEG_GAP *)
(* apart) is classified, its columns are built, and a segment x-range is   *)
(* assigned to a column.                                                   *)
(***************************************************************************)

\* x-ranges of the segments of the blocks.
SegRanges == {<<10, 100>>, <<150, 240>>, <<105, 240>>, <<90, 150>>,
              <<120, 240>>, <<95, 240>>}

\* x-ranges of the segments assigned to a column.
ProbeRanges == {<<20, 90>>, <<105, 240>>, <<95, 155>>}

LineTop(l) == 100 + 20 * l

HybridSegment(l, k, sx) ==
  [rect |-> <<sx[1], LineTop(l), sx[2], LineTop(l) + 12>>,
   text |-> "cell", sizes |-> <<115>>]

\* A line of one segment, or of two segments left to right.
LineShapes ==
  {<<a>> : a \in SegRanges}
    \cup {sh \in {<<a, b>> : a \in SegRanges, b \in SegRanges} :
            sh[2][1] > sh[1][2]}

HybridLine(l, shape) ==
  LET segs == [k \in 1..Len(shape) |-> HybridSegment(l, k, shape[k])]
  IN [rect |-> <<segs[1].rect[1], LineTop(l),
                 segs[Len(segs)].rect[3], LineTop(l) + 12>>,
      text |-> "line", segments |-> segs]

SetMin(S) == CHOOSE x \in S : \A y \in S : x <= y
SetMax(S) == CHOOSE x \in S : \A y \in S : x >= y

\* The block's rect is the hull of its lines; a block without lines keeps a
\* fixed rect.
HybridBlock(shapes) ==
  LET lines == [l \in 1..Len(shapes) |-> HybridLine(l, shapes[l])]
      n     == Len(lines)
  IN [page |-> 0,
      rect |-> IF n = 0 THEN <<10, 120, 240, 132>>
               ELSE <<SetMin({lines[l].rect[1] : l \in 1..n}), LineTop(1),
                      SetMax({lines[l].rect[3] : l \in 1..n}),
                      LineTop(n) + 12>>,
      lines |-> lines, text |-> "block", fontsize |-> 115, color |-> "black"]

\* bw = max(1.0, brect[2] - brect[0])
BlockWidth(blk) == Max(1, blk.rect[3] - blk.rect[1])

\* The gap between the two segments of a line exceeds
\* SEG_GAP = max(10.0, 0.12 * bw), else they would be one segment.
GapsExceedSegGap(blk) ==
  \A l \in 1..Len(blk.lines) :
    LET segs == blk.lines[l].segments
    IN \A k \in 1..(Len(segs) - 1) :
         LET gap == segs[k + 1].rect[1] - segs[k].rect[3]
         IN gap > 10 /\ 100 * gap > 12 * BlockWidth(blk)

Blocks ==
  {blk \in {HybridBlock(shapes) :
              shapes \in UNION {[1..n -> LineShapes] : n \in 0..MaxLines}} :
     GapsExceedSegGap(blk)}

\* Taller blocks: m lines of two segments, then lines of one segment that
\* is either the left cell or spans the block.
TallBlocks ==
  {HybridBlock([l \in 1..n |-> IF l <= m THEN <<<<10, 100>>, <<150, 240>>>>
                                ELSE <<one>>]) :
     n \in (MaxLines + 1)..MaxTallLines, m \in 0..3,
     one \in {<<10, 240>>, <<10, 100>>}}

InitTable ==
  /\ hb \in Blocks \cup TallBlocks
  /\ tableOut = NoTableOut
  /\ IdleIoU
  /\ IdleStyle
  /\ IdleRun
  /\ IdleTranslate
  /\ IdleFit
  /\ IdleFill
  /\ IdleErase
  /\ IdleLayout
  /\ IdleFont
  /\ IdleSeg
  /\ IdleAgg
  /\ IdleAll
  /\ IdleLang

CallIsTableLike ==
  /\ tableOut.step = 0
  /\ tableOut' = [tableOut EXCEPT !.step = 1,
                                  !.table_like = is_table_like(hb)]
  /\ UNCHANGED <<hb, iouVars, styleVars, runVars, trVars, fitVars, fillVars,
                 eraseVars, layVars, fontVars, segVars, aggVars, allVars,
                 langVars>>

CallBuildColumns ==
  /\ tableOut.step = 1
  /\ tableOut' = [tableOut EXCEPT !.step = 2, !.cols = build_columns(hb)]
  /\ UNCHANGED <<hb, iouVars, styleVars, runVars, trVars, fitVars, fillVars,
                 eraseVars, layVars, fontVars, segVars, aggVars, allVars,
                 langVars>>

\* the x-ranges of the block's own segments
OwnRanges == {collect_bands(hb.lines, 1)[i] :
                i \in 1..Len(collect_bands(hb.lines, 1))}

PlaceSegment ==
  /\ tableOut.step = 2
  /\ \E sx \in ProbeRanges \cup OwnRanges :
       tableOut' = [tableOut EXCEPT !.step = 3, !.seg = sx,
                                    !.col = best_col(sx, tableOut.cols)]
  /\ UNCHANGED <<hb, iouVars, styleVars, runVars, trVars, fitVars, fillVars,
                 eraseVars, layVars, fontVars, segVars, aggVars, allVars,
                 langVars>>

NextTable == CallIsTableLike \/ CallBuildColumns \/ PlaceSegment

SpecTable == InitTable /\ [][NextTable]_vars

\* ---- properties of SpecTable ----

NLines == Len(hb.lines)

AllLinesHave(k) ==
  \A l \in 1..NLines : Len(hb.lines[l].segments) = k

\* The segment x-ranges of the block, sorted.
SortedRanges == sort_bands(collect_bands(hb.lines, 1))

\* Some range of the sorted list starts right of (TOL left of) the largest
\* right edge before it: the ranges do not form one band.
HasBreak ==
  \E i \in 2..Len(SortedRanges) :
    \A j \in 1..(i - 1) : SortedRanges[i][1] > SortedRanges[j][2] - TOL

C6_OneBandReached ==
  /\ tableOut.step >= 1
  /\ NLines = 3
  /\ AllLinesHave(1)
  /\ ~tableOut.table_like
  /\ Cardinality({SortedRanges[i] : i \in 1..3}) = 3

\* The block has lines of one segment only and two distinct x-ranges r1, r2
\* with r1 ending before r2 starts or overlapping it from the left.
TwoRanges(r1, r2) ==
  /\ NLines = 2
  /\ AllLinesHave(1)
  /\ SortedRanges = <<r1, r2>>
  /\ r1 # r2

\* C7 (as stated): two x-ranges whose gap is at most 8pt are merged into one
\* band and two x-ranges whose gap is more than 8pt stay separate, in
\* build_columns and in is_table_like alike.
C7_AsStated ==
  tableOut.step >= 2 =>
    \A r1, r2 \in SegRanges :
      TwoRanges(r1, r2) =>
        LET gap == r2[1] - r1[2]
        IN /\ (gap <= TOL) => Len(tableOut.cols) = 1 /\ ~tableOut.table_like
           /\ (gap > TOL)  => Len(tableOut.cols) = 2 /\ tableOut.table_like

\* The failing input of C7: x-ranges [10,100] and [105,240], 5pt apart, were
\* kept as two bands and the block classified table-like.
C7_Diverges ==
  /\ tableOut.step >= 2
  /\ TwoRanges(<<10, 100>>, <<105, 240>>)
  /\ tableOut.cols = <<<<10, 100>>, <<105, 240>>>>
  /\ tableOut.table_like

\* The block of C8: single-segment lines with x-ranges [10,100] and
\* [150,240].
IsC8Block == TwoRanges(<<10, 100>>, <<150, 240>>)

Translated(text) == "T(" \o text \o ")"

\* hasattr(obj, name) of a dataclass instance.
HasAttr(obj, name) == name \in DOMAIN obj

CoarseModes == {"span", "line", "block"}

\* The pages of the output document: 0 <= pno < len(out).
PageNos == {0}

RECURSIVE sort_sizes(_)
sort_sizes(sizes) ==
  IF sizes = <<>> THEN <<>>
  ELSE LET rest == sort_sizes(Tail(sizes))
           lo   == SelectSeq(rest, LAMBDA x : x <= Head(sizes))
           hi   == SelectSeq(rest, LAMBDA x : x > Head(sizes))
       IN lo \o <<Head(sizes)>> \o hi

\* statistics.median: the middle of the sorted sizes, the mean of the two
\* middles for an even count (whole when their sum is even).
median(sizes) ==
  LET srt == sort_sizes(sizes)
      n   == Len(srt)
  IN IF n % 2 = 1 THEN srt[(n + 1) \div 2]
     ELSE (srt[n \div 2] + srt[n \div 2 + 1]) \div 2

\* max(color_counts.items(), key=count)[0]: the most frequent colour, the
\* first seen on ties.
most_common_color(sps) ==
  LET count(c) == Cardinality({i \in 1..Len(sps) : sps[i].color = c})
      i == CHOOSE i \in 1..Len(sps) :
             /\ \A j \in 1..Len(sps) : count(sps[j].color) <= count(sps[i].color)
             /\ \A j \in 1..(i - 1) : count(sps[j].color) < count(sps[i].color)
  IN sps[i].color

\* One block of derive_block_styles_from_spans: the spans of the block's page
\* with IoU > 0.4 or centroid inside give fontsize, color, font and flags; a
\* block without such a span is left as it is (a HybridBlock then has no font
\* and no flags attribute).
derive_block_style(bl, sps_all) ==
  LET hit(sp) == /\ sp.page = bl.page
                 /\ \/ FracGT(rect_iou(bl.rect, sp.rect), <<IOU_BLOCK_PCT, 100>>)
                    \/ point_in_rect(rect_center(sp.rect), bl.rect)
      sps == SelectSeq(sps_all, hit)
  IN IF sps = <<>> THEN bl
     ELSE [f \in DOMAIN bl \cup {"font", "flags"} |->
             CASE f = "fontsize" -> median([i \in 1..Len(sps) |-> sps[i].fontsize])
               [] f = "color"    -> most_common_color(sps)
               [] f = "font"     -> sps[1].font
               [] f = "flags"    -> sps[1].flags
               [] OTHER          -> bl[f]]

derive_block_styles_from_spans(blocks, sps_all) ==
  [b \in 1..Len(blocks) |-> derive_block_style(blocks[b], sps_all)]

\* The raw block b of a document, its texts made distinct by position.
RawBlock(b, shapes) ==
  LET blk  == HybridBlock(shapes)
      name == "b" \o ToString(b)
  IN [blk EXCEPT
        !.text  = name,
        !.lines = [l \in 1..Len(blk.lines) |->
                     [blk.lines[l] EXCEPT
                        !.text = name \o "l" \o ToString(l),
                        !.segments =
                          [k \in 1..Len(blk.lines[l].segments) |->
                             [blk.lines[l].segments[k] EXCEPT
                                !.text = name \o "l" \o ToString(l)
                                              \o "s" \o ToString(k)]]]]]

\* extract_blocks_with_segments appends the HybridBlock of every raw block
\* with lines, and it does so twice.
extract_blocks_with_segments(raw) ==
  [k \in 1..(2 * Len(raw)) |-> raw[(k + 1) \div 2]]

\* extract_spans_from_textlayer: one span per non-blank run; here one run per
\* segment, in block, line and segment order.
RECURSIVE spans_of_lines(_, _, _)
spans_of_lines(blk, l, k) ==
  IF l > Len(blk.lines) THEN <<>>
  ELSE IF k > Len(blk.lines[l].segments) THEN spans_of_lines(blk, l + 1, 1)
  ELSE <<[FreshSpan(blk.page, blk.lines[l].segments[k].rect)
            EXCEPT !.text = blk.lines[l].segments[k].text]>>
         \o spans_of_lines(blk, l, k + 1)

RECURSIVE extract_spans_from_textlayer(_, _)
extract_spans_from_textlayer(raw, b) ==
  IF b > Len(raw) THEN <<>>
  ELSE spans_of_lines(raw[b], 1, 1) \o extract_spans_from_textlayer(raw, b + 1)

\* requests.append((text, sl, dl)) with translate_dir "hi->en".
Request(text) == <<text, "hi", "en">>

\* map_back entries of one table-like block: one 'seg' entry per segment, in
\* line then segment order.
RECURSIVE seg_infos(_, _, _, _, _)
seg_infos(bl, b, l, k, cols) ==
  IF l > Len(bl.lines) THEN <<>>
  ELSE IF k > Len(bl.lines[l].segments) THEN seg_infos(bl, b, l + 1, 1, cols)
  ELSE <<[type |-> "seg", b |-> b, l |-> l, s |-> k, cols |-> cols]>>
         \o seg_infos(bl, b, l, k + 1, cols)

\* The hybrid collection loop: build_columns is called for the blocks
\* is_table_like accepts, the other blocks give one 'block' entry.
RECURSIVE collect_hybrid(_, _)
collect_hybrid(blocks, b) ==
  IF b > Len(blocks) THEN <<>>
  ELSE (IF is_table_like(blocks[b])
        THEN seg_infos(blocks[b], b, 1, 1, build_columns(blocks[b]))
        ELSE <<[type |-> "block", b |-> b]>>)
       \o collect_hybrid(blocks, b + 1)

\* The text each map_back entry asks to translate.
hybrid_request(blocks, info) ==
  IF info.type = "seg"
  THEN Request(blocks[info.b].lines[info.l].segments[info.s].text)
  ELSE Request(blocks[info.b].text)

\* The overlay collection loop: the positions of the items on a page of the
\* output whose text is not empty.
overlay_indices(items) ==
  SelectSeq([i \in 1..Len(items) |-> i],
            LAMBDA i : items[i].page \in PageNos /\ items[i].text # "")

\* mw of the hybrid and overlay batches; the span, line and block batches
\* pass no max_workers and get the default.
max_workers ==
  IF mode \in {"hybrid", "overlay"} /\ translator = "GoogleTranslator"
  THEN MW_GOOGLE ELSE MW_OTHER

\* Mutant of executor_map_results: the results in completion order.
as_completed_results == [k \in 1..Len(arrival) |-> futs[arrival[k]].result]

\* list(executor.map(_worker, items)): the results in submission order.
executor_map_results == [i \in 1..Len(futs) |-> futs[i].result]

\* insert_text_fit / overlay_draw_text_as_image on a page, as far as the
\* unit, the rect and the text go.
Draw(unit, page, rect, text) ==
  [unit |-> unit, page |-> page, rect |-> rect, text |-> text]

\* cell_rect = (best_col[0], y0, best_col[1], y1) with y0, y1 of the line.
cell_rect(seg, ln, cols) ==
  LET c == best_col(<<seg.rect[1], seg.rect[3]>>, cols)
  IN <<c[1], ln.rect[2], c[2], ln.rect[4]>>

\* The hybrid render loop over zip(map_back, results).  A 'seg' entry reads
\* ln.flags and ln.font, a 'block' entry bl.flags and bl.font; a missing
\* attribute raises AttributeError.  bad is the entry, if any, for which
\* match_font or insert_text_fit raises.  No statement of the loop catches
\* an exception: the first one ends the loop.
RECURSIVE render_hybrid(_, _, _, _, _, _)
render_hybrid(blocks, mb, res, k, ops, bad) ==
  IF k > Min(Len(mb), Len(res)) THEN [ops |-> ops, raised |-> FALSE]
  ELSE LET info     == mb[k]
           text_out == res[k]
           bl       == blocks[info.b]
       IN IF info.type = "seg"
          THEN LET ln  == bl.lines[info.l]
                   seg == ln.segments[info.s]
               IN IF ~(HasAttr(ln, "flags") /\ HasAttr(ln, "font")) \/ k = bad
                  THEN [ops |-> ops, raised |-> TRUE]
                  ELSE render_hybrid(blocks, mb, res, k + 1,
                         Append(ops, Draw(<<info.b, info.l, info.s>>, bl.page,
                                          cell_rect(seg, ln, info.cols),
                                          text_out)), bad)
          ELSE IF ~(HasAttr(bl, "flags") /\ HasAttr(bl, "font")) \/ k = bad
               THEN [ops |-> ops, raised |-> TRUE]
               ELSE render_hybrid(blocks, mb, res, k + 1,
                      Append(ops, Draw(<<info.b>>, bl.page, bl.rect, text_out)),
                      bad)

\* The span, line and block render loops over zip(units, results), ended by
\* the first exception.
render_units(us, res, bad) ==
  LET n    == Min(Len(us), Len(res))
      stop == IF bad \in 1..n THEN bad ELSE n + 1
  IN [ops |-> [i \in 1..(stop - 1) |->
                 Draw(<<i>>, us[i].page, us[i].rect, res[i])],
      raised |-> stop <= n]

\* for idx, trans_text in zip(indices, translated_texts):
\*     overlay_items[idx]["translated_text"] = trans_text
apply_translations(items, idxs, res) ==
  [i \in 1..Len(items) |->
     IF \E k \in 1..Min(Len(idxs), Len(res)) : idxs[k] = i
     THEN LET k == CHOOSE k \in 1..Min(Len(idxs), Len(res)) :
                     /\ idxs[k] = i
                     /\ \A j \in (k + 1)..Min(Len(idxs), Len(res)) : idxs[j] # i
          IN [items[i] EXCEPT !.translated_text = res[k]]
     ELSE items[i]]

\* The overlay render loop: every item on a page of the output is drawn with
\* its translated text, or with its own text when that is empty; the first
\* exception ends the loop.
RECURSIVE render_overlay(_, _, _, _)
render_overlay(items, i, ops, bad) ==
  IF i > Len(items) THEN [ops |-> ops, raised |-> FALSE]
  ELSE IF items[i].page \notin PageNos THEN render_overlay(items, i + 1, ops, bad)
  ELSE IF i = bad THEN [ops |-> ops, raised |-> TRUE]
  ELSE render_overlay(items, i + 1,
         Append(ops, Draw(<<i>>, items[i].page, items[i].bbox,
                          IF items[i].translated_text # ""
                          THEN items[i].translated_text ELSE items[i].text)),
         bad)

(***************************************************************************)
(* The translation boundary: translate_text and the translate method of    *)
(* the four providers.  The external service is an outcome record          *)
(* [kind, out]: it answers out ("ok"), raises ("raise"), or answers in a   *)
(* shape the provider does not expect.  A call yields [raised, value].     *)
(* Where the code edits the answer, texts are sequences of characters.     *)
(***************************************************************************)

Ret(v) == [raised |-> FALSE, value |-> v]
Raise  == [raised |-> TRUE, value |-> <<>>]

IsSpace(c) == c \in {" ", "\n"}
IsPunct(c) == c \in {",", ".", ";", ":", "!", "?"}

\* str.strip()
RECURSIVE lstrip(_)
lstrip(s) == IF s # <<>> /\ IsSpace(Head(s)) THEN lstrip(Tail(s)) ELSE s

RECURSIVE rstrip(_)
rstrip(s) ==
  IF s # <<>> /\ IsSpace(s[Len(s)]) THEN rstrip(SubSeq(s, 1, Len(s) - 1)) ELSE s

strip(s) == rstrip(lstrip(s))

\* str.splitlines(): the pieces between line feeds, without a last empty
\* piece.
RECURSIVE splitlines(_, _)
splitlines(s, cur) ==
  IF s = <<>> THEN (IF cur = <<>> THEN <<>> ELSE <<cur>>)
  ELSE IF Head(s) = "\n" THEN <<cur>> \o splitlines(Tail(s), <<>>)
  ELSE splitlines(Tail(s), Append(cur, Head(s)))

\* " ".join(line.split()): the words of the line, one blank between them.
RECURSIVE join_words(_, _, _)
join_words(s, acc, gap) ==
  IF s = <<>> THEN acc
  ELSE IF IsSpace(Head(s)) THEN join_words(Tail(s), acc, acc # <<>>)
  ELSE join_words(Tail(s),
                  (IF gap THEN Append(acc, " ") ELSE acc) \o <<Head(s)>>, FALSE)

\* "\n".join(...)
RECURSIVE join_lines(_)
join_lines(ls) ==
  IF ls = <<>> THEN <<>>
  ELSE IF Len(ls) = 1 THEN ls[1]
  ELSE ls[1] \o <<"\n">> \o join_lines(Tail(ls))

\* The first position after the run of white space that starts at i.
RECURSIVE run_end(_, _)
run_end(s, i) == IF i <= Len(s) /\ IsSpace(s[i]) THEN run_end(s, i + 1) ELSE i

\* re.sub(r"\s+([,.;:!?।])", r"\1", out): a run of white space right
\* before a punctuation mark is dropped.
RECURSIVE unspace_punct(_, _)
unspace_punct(s, i) ==
  IF i > Len(s) THEN <<>>
  ELSE IF IsSpace(s[i])
       THEN LET j == run_end(s, i)
            IN IF j <= Len(s) /\ IsPunct(s[j])
               THEN unspace_punct(s, j)
               ELSE SubSeq(s, i, j - 1) \o unspace_punct(s, j)
       ELSE <<s[i]>> \o unspace_punct(s, i + 1)

\* The two normalising lines of translate_text.
normalize_out(out) ==
  LET ls == splitlines(out, <<>>)
  IN unspace_punct(
       join_lines([k \in 1..Len(ls) |-> join_words(ls[k], <<>>, FALSE)]), 1)

\* translate_text(text, src, dest, translator): svc is what
\* translator.translate does ("none": it returns None).
translate_text(text, tr, svc) ==
  IF tr = "None" THEN Ret(text)
  ELSE IF svc.kind = "ok" THEN Ret(normalize_out(svc.out))
  ELSE Ret(text)

\* GoogleTranslator.translate ("notext": the answer has no text attribute).
GoogleTranslator_translate(text, svc) ==
  IF svc.kind = "ok" THEN Ret(svc.out) ELSE Ret(text)

\* Mutant of DeepLTranslator_translate: the call is not guarded.
DeepLTranslator_unguarded(text, svc) ==
  IF svc.kind = "ok" THEN Ret(svc.out) ELSE Raise

\* DeepLTranslator.translate
DeepLTranslator_translate(text, svc) ==
  IF svc.kind = "ok" THEN Ret(svc.out) ELSE Ret(text)

\* OpenAITranslator.translate ("none": message.content is None, and strip
\* raises inside the try).
OpenAITranslator_translate(text, svc) ==
  IF svc.kind = "ok" THEN Ret(strip(svc.out)) ELSE Ret(text)

\* OllamaTranslator.translate with the ollama client, or with requests
\* ("status": an answer other than 200; "nokey": 200 without a response).
OllamaTranslator_translate(text, has_client, svc) ==
  IF has_client
  THEN (IF svc.kind = "ok" THEN Ret(svc.out) ELSE Ret(text))
  ELSE CASE svc.kind = "ok"    -> Ret(strip(svc.out))
         [] svc.kind = "nokey" -> Ret(strip(<<>>))
         [] OTHER              -> Ret(text)

\* translator.translate(txt, s, d) of the configured translator.
provider_translate(cls, text, svc) ==
  CASE cls = "GoogleTranslator" -> GoogleTranslator_translate(text, svc)
    [] cls = "DeepLTranslator"  -> DeepLTranslator_translate(text, svc)
    [] cls = "OpenAITranslator" -> OpenAITranslator_translate(text, svc)
    [] cls = "OllamaTranslator" -> OllamaTranslator_translate(text, TRUE, svc)
    [] cls = "OllamaRequests"   -> OllamaTranslator_translate(text, FALSE, svc)

(***************************************************************************)
(* SpecRun: one call of run_mode in mode span, line, block, hybrid or      *)
(* overlay.  The batch runs on a pool of max_workers threads that take the *)
(* requests in submission order and finish in any order.                   *)
(***************************************************************************)

UnitRect(i) == <<10, 100 + 20 * i, 240, 112 + 20 * i>>

\* The spans, lines or blocks of a document, their texts distinct.
UnitList(n) ==
  [i \in 1..n |-> [FreshSpan(0, UnitRect(i)) EXCEPT !.text = "u" \o ToString(i)]]

\* Overlay items: on the page with text, on the page without text, or on a
\* page the output does not have.
OverlayKinds == {"text", "empty", "offpage"}

OverlayItem(i, kind) ==
  [page |-> IF kind = "offpage" THEN 5 ELSE 0,
   bbox |-> UnitRect(i),
   text |-> IF kind = "empty" THEN "" ELSE "o" \o ToString(i),
   fontsize |-> 115,
   translated_text |-> ""]

\* Raw blocks: two single-segment lines in two bands, two single-segment
\* lines in one band, one line of two segments.
RunShapes ==
  {<<<<<<10, 100>>>>, <<<<150, 240>>>>>>,
   <<<<<<10, 100>>>>, <<<<90, 150>>>>>>,
   <<<<<<10, 100>>, <<150, 240>>>>>>}

RawDocs ==
  {[b \in 1..Len(shp) |-> RawBlock(b, shp[b])] :
     shp \in UNION {[1..n -> RunShapes] : n \in 1..(MaxRequests \div 2)}}

\* hblocks as run_mode holds them before the collection.
HBlocksOf(raw) ==
  derive_block_styles_from_spans(extract_blocks_with_segments(raw),
                                 extract_spans_from_textlayer(raw, 1))

\* the arguments of run_mode and the document it works on
RunInputs ==
  /\ mode \in CoarseModes \cup {"hybrid", "overlay"}
  /\ translator \in {"GoogleTranslator", "DeepLTranslator"}
  /\ IF mode \in CoarseModes
     THEN units \in {UnitList(n) : n \in 0..MaxRequests}
     ELSE units = <<>>
  /\ IF mode = "hybrid"
     THEN hblocks \in {hbs \in {HBlocksOf(raw) : raw \in RawDocs} :
                         Len(collect_hybrid(hbs, 1)) <= MaxRequests}
     ELSE hblocks = <<>>
  /\ IF mode = "overlay"
     THEN overlay_items \in
            {[i \in 1..Len(kinds) |-> OverlayItem(i, kinds[i])] :
               kinds \in UNION {[1..n -> OverlayKinds] : n \in 1..MaxRequests}}
     ELSE overlay_items = <<>>
  /\ requests = <<>> /\ map_back = <<>> /\ indices = <<>>
  /\ futs = <<>> /\ arrival = <<>> /\ results = <<>> /\ page_ops = <<>>

InitRun ==
  /\ RunInputs
  /\ pc = "collect"
  /\ IdleIoU
  /\ IdleStyle
  /\ IdleTable
  /\ IdleTranslate
  /\ IdleFit
  /\ IdleFill
  /\ IdleErase
  /\ IdleLayout
  /\ IdleFont
  /\ IdleSeg
  /\ IdleAgg
  /\ IdleAll
  /\ IdleLang

\* The collection loop of the mode, and the submission of the batch.
Collect ==
  /\ pc = "collect"
  /\ map_back' = IF mode = "hybrid" THEN collect_hybrid(hblocks, 1) ELSE <<>>
  /\ indices' = IF mode = "overlay" THEN overlay_indices(overlay_items) ELSE <<>>
  /\ requests' =
       CASE mode \in CoarseModes ->
              [i \in 1..Len(units) |-> Request(units[i].text)]
         [] mode = "hybrid" ->
              [k \in 1..Len(map_back') |-> hybrid_request(hblocks, map_back'[k])]
         [] mode = "overlay" ->
              [k \in 1..Len(indices') |-> Request(overlay_items[indices'[k]].text)]
  /\ futs' = [i \in 1..Len(requests') |->
                [st |-> "queued", ok |-> TRUE, exc |-> FALSE, result |-> ""]]
  /\ pc' = "translate"
  /\ UNCHANGED <<mode, translator, units, hblocks, overlay_items, arrival,
                 results, page_ops>>
  /\ UNCHANGED <<iouVars, styleVars, tableVars, trVars, fitVars, fillVars,
                 eraseVars, layVars, fontVars, segVars, aggVars, allVars,
                 langVars>>

\* A free worker takes the next queued request.
WorkerStart ==
  /\ pc = "translate"
  /\ Cardinality({i \in 1..Len(futs) : futs[i].st = "running"}) < max_workers
  /\ \E i \in 1..Len(futs) :
       /\ futs[i].st = "queued"
       /\ \A j \in 1..(i - 1) : futs[j].st # "queued"
       /\ futs' = [futs EXCEPT ![i].st = "running"]
  /\ UNCHANGED <<mode, translator, units, hblocks, overlay_items, requests,
                 map_back, indices, arrival, results, page_ops, pc>>
  /\ UNCHANGED <<iouVars, styleVars, tableVars, trVars, fitVars, fillVars,
                 eraseVars, layVars, fontVars, segVars, aggVars, allVars,
                 langVars>>

\* A worker puts translator.translate(txt, s, d) into its own future: the
\* service answers with the translation or fails.
WorkerFinish ==
  /\ pc = "translate"
  /\ \E i \in 1..Len(futs), kind \in {"ok", "raise"} :
       LET ret == provider_translate(translator, requests[i][1],
                    [kind |-> kind, out |-> Translated(requests[i][1])])
       IN /\ futs[i].st = "running"
          /\ futs' = [futs EXCEPT ![i] = [st |-> "done", ok |-> kind = "ok",
                                          exc |-> ret.raised,
                                          result |-> ret.value]]
          /\ arrival' = Append(arrival, i)
  /\ UNCHANGED <<mode, translator, units, hblocks, overlay_items, requests,
                 map_back, indices, results, page_ops, pc>>
  /\ UNCHANGED <<iouVars, styleVars, tableVars, trVars, fitVars, fillVars,
                 eraseVars, layVars, fontVars, segVars, aggVars, allVars,
                 langVars>>

\* batch_translate_text returns once every future is done; an exception of
\* a worker leaves it and run_mode.
Gather ==
  /\ pc = "translate"
  /\ \A i \in 1..Len(futs) : futs[i].st = "done"
  /\ IF \E i \in 1..Len(futs) : futs[i].exc
     THEN results' = results /\ pc' = "raised"
     ELSE results' = executor_map_results /\ pc' = "render"
  /\ UNCHANGED <<mode, translator, units, hblocks, overlay_items, requests,
                 map_back, indices, futs, arrival, page_ops>>
  /\ UNCHANGED <<iouVars, styleVars, tableVars, trVars, fitVars, fillVars,
                 eraseVars, layVars, fontVars, segVars, aggVars, allVars,
                 langVars>>

\* The render loop of the mode, then the save unless the loop raised.  The
\* processing of one unit (bad) may raise in match_font or insert_text_fit.
Render ==
  /\ pc = "render"
  /\ overlay_items' =
       IF mode = "overlay"
       THEN apply_translations(overlay_items, indices, results)
       ELSE overlay_items
  /\ \E bad \in 0..Len(requests) :
       LET rv == CASE mode \in CoarseModes ->
                        render_units(units, results, bad)
                   [] mode = "hybrid" ->
                        render_hybrid(hblocks, map_back, results, 1, <<>>, bad)
                   [] mode = "overlay" ->
                        render_overlay(overlay_items', 1, <<>>,
                                       IF bad = 0 THEN 0 ELSE indices[bad])
       IN /\ page_ops' = page_ops \o rv.ops
          /\ pc' = IF rv.raised THEN "raised" ELSE "saved"
  /\ UNCHANGED <<mode, translator, units, hblocks, requests, map_back, indices,
                 futs, arrival, results>>
  /\ UNCHANGED <<iouVars, styleVars, tableVars, trVars, fitVars, fillVars,
                 eraseVars, layVars, fontVars, segVars, aggVars, allVars,
                 langVars>>

NextRun == Collect \/ WorkerStart \/ WorkerFinish \/ Gather \/ Render

SpecRun == InitRun /\ [][NextRun]_vars

\* ---- properties of SpecRun ----

RunOver == pc \in {"saved", "raised"}

\* The cell rect of the claim: the x-range of the first band, left to right,
\* of greatest horizontal overlap with the segment, the y-range of the line.
BandOverlap(seg, c) ==
  LET lo == IF seg.rect[1] > c[1] THEN seg.rect[1] ELSE c[1]
      hi == IF seg.rect[3] < c[2] THEN seg.rect[3] ELSE c[2]
  IN IF hi > lo THEN hi - lo ELSE 0

IsCellRect(r, seg, ln, cols) ==
  \E i \in 1..Len(cols) :
    /\ \A j \in 1..Len(cols) : BandOverlap(seg, cols[j]) <= BandOverlap(seg, cols[i])
    /\ \A j \in 1..(i - 1) : BandOverlap(seg, cols[j]) < BandOverlap(seg, cols[i])
    /\ r = <<cols[i][1], ln.rect[2], cols[i][2], ln.rect[4]>>

\* C9 (as stated): when a hybrid run is over, every segment of a table-like
\* block has been drawn into the cell rect made of the x-range of the band
\* of greatest overlap (the first one on ties) and the y-range of its line,
\* and only table-like blocks have had build_columns consulted.
C9_AsStated ==
  (mode = "hybrid" /\ RunOver) =>
    \A k \in 1..Len(map_back) :
      LET info == map_back[k]
          bl   == hblocks[info.b]
      IN IF info.type = "seg"
         THEN /\ is_table_like(bl)
              /\ \E d \in 1..Len(page_ops) :
                   /\ page_ops[d].unit = <<info.b, info.l, info.s>>
                   /\ IsCellRect(page_ops[d].rect,
                                 bl.lines[info.l].segments[info.s],
                                 bl.lines[info.l], build_columns(bl))
         ELSE ~is_table_like(bl)

\* The failing run of C9: a hybrid run over a table-like block ended by the
\* AttributeError of the first 'seg' entry with no segment drawn.
C9_Diverges ==
  /\ mode = "hybrid"
  /\ pc = "raised"
  /\ \E k \in 1..Len(map_back) : map_back[k].type = "seg"
  /\ \A d \in 1..Len(page_ops) : Len(page_ops[d].unit) = 1

\* The text the unit of a draw asked to translate.
UnitText(u) ==
  CASE mode \in CoarseModes -> units[u[1]].text
    [] mode = "overlay"     -> overlay_items[u[1]].text
    [] mode = "hybrid"      ->
         IF Len(u) = 3 THEN hblocks[u[1]].lines[u[2]].segments[u[3]].text
         ELSE hblocks[u[1]].text

\* The request made for the unit of a draw.
ReqOf(u) ==
  CASE mode \in CoarseModes -> u[1]
    [] mode = "overlay" ->
         CHOOSE k \in 1..Len(indices) : indices[k] = u[1]
    [] mode = "hybrid" ->
         CHOOSE k \in 1..Len(map_back) :
           /\ map_back[k].b = u[1]
           /\ IF Len(u) = 3
              THEN /\ map_back[k].type = "seg"
                   /\ map_back[k].l = u[2] /\ map_back[k].s = u[3]
              ELSE map_back[k].type = "block"

\* What the translator returned for request i: the translation of its text,
\* or the text itself where the service failed.
Outcome(i) ==
  IF futs[i].ok THEN Translated(requests[i][1]) ELSE requests[i][1]

\* C10: whatever the order in which the workers finish, the batch returns
\* as many results as requests, the i-th being the translation of the i-th
\* request, and every draw of run_mode carries the translation of the text
\* of the very unit it draws (an overlay item without text is drawn empty);
\* a saved span, line, block or overlay run has drawn every unit this way.
C10_OrderPreserved ==
  /\ pc \in {"render", "saved"} =>
       /\ Len(results) = Len(requests)
       /\ \A i \in 1..Len(requests) : results[i] = Outcome(i)
  /\ \A d \in 1..Len(page_ops) :
       page_ops[d].text = IF UnitText(page_ops[d].unit) = "" THEN ""
                          ELSE Outcome(ReqOf(page_ops[d].unit))
  /\ (pc = "saved" /\ mode \in CoarseModes) =>
       /\ Len(page_ops) = Len(units)
       /\ \A i \in 1..Len(units) : page_ops[i].unit = <<i>>
  /\ (pc = "saved" /\ mode = "overlay") =>
       \A i \in 1..Len(overlay_items) :
         /\ overlay_items[i].page \in PageNos
              => \E d \in 1..Len(page_ops) : page_ops[d].unit = <<i>>
         /\ (overlay_items[i].page \in PageNos /\ overlay_items[i].text # "")
              => overlay_items[i].translated_text = Outcome(ReqOf(<<i>>))

\* Witness of C10: a saved overlay run whose first item was skipped, so that
\* request k belongs to item k + 1, and whose last request finished first.
C10_Witness ==
  /\ mode = "overlay"
  /\ pc = "saved"
  /\ Len(requests) >= 3
  /\ indices[1] = 2
  /\ arrival[1] = Len(requests)
  /\ Len(page_ops) >= 3

(***************************************************************************)
(* SpecBoundary: the translation boundary, called directly and through a   *)
(* run.  A state is either a single call of translate_text or of a         *)
(* provider's translate on an answer of the service, or a state of a run   *)
(* of SpecRun, whose workers call the configured provider.                 *)
(***************************************************************************)

\* Characters of a service answer, and the answers.
TrChars == {"a", " ", ".", "\n"}
TrAnswers == UNION {[1..n -> TrChars] : n \in 0..MaxStr}

\* Texts handed to the boundary.
TrTexts == {<<"x">>, <<"x", " ">>}

\* What the service can do, per callee.
TrKinds(fn) ==
  CASE fn = "translate_text"      -> {"ok", "raise", "none"}
    [] fn = "translate_text_none" -> {"unused"}
    [] fn = "GoogleTranslator"    -> {"ok", "raise", "notext"}
    [] fn = "DeepLTranslator"     -> {"ok", "raise"}
    [] fn = "OpenAITranslator"    -> {"ok", "raise", "none"}
    [] fn = "OllamaTranslator"    -> {"ok", "raise"}
    [] fn = "OllamaRequests"      -> {"ok", "raise", "nokey", "status"}

TrFns == {"translate_text", "translate_text_none", "GoogleTranslator",
          "DeepLTranslator", "OpenAITranslator", "OllamaTranslator",
          "OllamaRequests"}

InitTranslate ==
  /\ trCall \in {[fn |-> fn, text |-> text, svc |-> [kind |-> kind, out |-> out]] :
                   fn \in TrFns, text \in TrTexts,
                   kind \in UNION {TrKinds(f) : f \in TrFns}, out \in TrAnswers}
  /\ trCall.svc.kind \in TrKinds(trCall.fn)
  /\ trCall.svc.kind # "ok" => trCall.svc.out = <<>>
  /\ trOut = NoTrOut
  /\ IdleIoU
  /\ IdleStyle
  /\ IdleTable
  /\ IdleRun
  /\ IdleFit
  /\ IdleFill
  /\ IdleErase
  /\ IdleLayout
  /\ IdleFont
  /\ IdleSeg
  /\ IdleAgg
  /\ IdleAll
  /\ IdleLang

CallTranslate ==
  /\ trCall.fn # ""
  /\ ~trOut.called
  /\ LET ret == CASE trCall.fn = "translate_text" ->
                       translate_text(trCall.text, "translator", trCall.svc)
                  [] trCall.fn = "translate_text_none" ->
                       translate_text(trCall.text, "None", trCall.svc)
                  [] OTHER ->
                       provider_translate(trCall.fn, trCall.text, trCall.svc)
     IN trOut' = [called |-> TRUE, raised |-> ret.raised, value |-> ret.value]
  /\ UNCHANGED <<trCall, iouVars, styleVars, tableVars, runVars, fitVars,
                 fillVars, eraseVars, layVars, fontVars, segVars, aggVars,
                 allVars, langVars>>

InitBoundary == InitTranslate \/ InitRun

NextBoundary == CallTranslate \/ NextRun

SpecBoundary == InitBoundary /\ [][NextBoundary]_vars

\* ---- properties of SpecBoundary ----

\* The service raised or answered in a shape the callee cannot read, or no
\* translator was given.
TrFailed == trCall.svc.kind \in {"raise", "none", "notext", "status", "unused"}

ToRender ==
  CASE mode \in CoarseModes -> {<<i>> : i \in 1..Len(units)}
    [] mode = "overlay" ->
         {<<i>> : i \in {j \in 1..Len(overlay_items) :
                           overlay_items[j].page \in PageNos}}
    [] mode = "hybrid" ->
         {IF map_back[k].type = "seg"
          THEN <<map_back[k].b, map_back[k].l, map_back[k].s>>
          ELSE <<map_back[k].b>> : k \in 1..Len(map_back)}

Drawn == {page_ops[d].unit : d \in 1..Len(page_ops)}

\* C12 (as stated): when a run is over, an exception in the processing of
\* one unit has kept no other unit from being rendered: at most the unit
\* that raised is missing from the page.
C12_AsStated ==
  (RunOver /\ Len(results) = Len(requests)) =>
    Cardinality(ToRender \ Drawn) <= 1

\* The failing run of C12: a span run of three spans in which the processing
\* of the first span raised; the two other spans were not rendered and the
\* output was not saved.
C12_Diverges ==
  /\ mode = "span"
  /\ pc = "raised"
  /\ Len(units) = 3
  /\ Len(results) = 3
  /\ page_ops = <<>>

\* ======================================================================
\* TextFitter (utils.py): calculate_fitting_fontsize and insert_text_fit.
\* Lengths are tenths of a point, font sizes are exact fractions
\* <<num, den>> of a point; the shrink ladder of insert_text_fit works in
\* thousandths of a point (its repeated * 0.90 rounded down).
\* ======================================================================

RECURSIVE GCD(_, _)
GCD(a, b) == IF b = 0 THEN a ELSE GCD(b, a % b)

FracNorm(p) == LET g == GCD(p[1], p[2]) IN <<p[1] \div g, p[2] \div g>>

FracLT(p, q) == p[1] * q[2] < q[1] * p[2]

FracLE(p, q) == p[1] * q[2] <= q[1] * p[2]

\* page.get_text_length(...): the width of the text on one line at base_size,
\* or an exception.
Measures == [ok : BOOLEAN, width : {800, 1000, 1500, 4000}]

\* mutant of calculate_fitting_fontsize: proportional shrink, no 5% margin
calculate_fitting_fontsize_no_margin(r_width, r_height, measure, base_size) ==
  IF r_width <= 0 \/ r_height <= 0 THEN base_size
  ELSE IF ~measure.ok THEN base_size
  ELSE IF measure.width > r_width
       THEN LET cand == FracNorm(<<base_size[1] * r_width,
                                   base_size[2] * measure.width>>)
            IN IF FracLT(cand, <<5, 1>>) THEN <<5, 1>> ELSE cand
       ELSE base_size

\* utils.py calculate_fitting_fontsize: start_size = base_size unless the
\* measured width exceeds the rect width, then
\* max(5.0, base_size * (r_width / width) * 0.95).
calculate_fitting_fontsize(r_width, r_height, measure, base_size) ==
  IF r_width <= 0 \/ r_height <= 0 THEN base_size
  ELSE IF ~measure.ok THEN base_size
  ELSE IF measure.width > r_width
       THEN LET cand == FracNorm(<<base_size[1] * r_width * 95,
                                   base_size[2] * measure.width * 100>>)
            IN IF FracLT(cand, <<5, 1>>) THEN <<5, 1>> ELSE cand
       ELSE base_size

\* a float size in thousandths of a point, rounded down
ToMilli(p) == (p[1] \div p[2]) * 1000 + ((p[1] % p[2]) * 1000) \div p[2]

\* page.insert_textbox(target_r, text, fontsize=effective_size, ...) >= 0:
\* the text fits the padded rect up to size capN and the rect expanded
\* downwards up to size capE; a negative return value writes nothing.
insert_textbox_fits(effective_size, expanded, capN, capE) ==
  effective_size <= (IF expanded THEN capE ELSE capN)

TextBox(target_r, size) == [op |-> "insert_textbox", rect |-> target_r, size |-> size]

TextLine(x, y, size) == [op |-> "insert_text", x |-> x, y |-> y, size |-> size]

\* mutant of shrink: a slower ladder
shrink_slow(current_size) == (current_size * 95) \div 100

\* current_size *= 0.90
shrink(current_size) == (current_size * 9) \div 10

\* mutant of target_rect: the padded rect at every size
target_rect_unexpanded(r, current_size) == r

\* target_r = fitz.Rect(r); if current_size < MIN_READABLE_SIZE:
\* target_r.y1 += (MIN_READABLE_SIZE * 1.4) * 3
target_rect(r, current_size) ==
  IF current_size < 8000 THEN <<r[1], r[2], r[3], r[4] + 336>> ELSE r

\* one page.insert_textbox call of the loop: the working size, the
\* fontsize and lineheight arguments and the rect
Attempt(r, current_size) ==
  [working |-> current_size, size |-> Max(current_size, 8000),
   rect |-> target_rect(r, current_size),
   lineheight |-> <<Max(current_size, 8000) * 125, 100>>]

\* mutant of fit_loop: an overflowing ladder ends without the fallback draw
fit_loop_no_fallback(r, attempt, current_size, capN, capE) ==
  IF insert_textbox_fits(Max(current_size, 8000), current_size < 8000, capN, capE)
  THEN [result |-> TRUE, attempts |-> attempt + 1, size |-> current_size,
        draws |-> <<TextBox(target_rect(r, current_size),
                            Max(current_size, 8000))>>,
        tries |-> <<Attempt(r, current_size)>>]
  ELSE [result |-> FALSE, attempts |-> attempt + 1, size |-> current_size,
        draws |-> <<>>, tries |-> <<Attempt(r, current_size)>>]

\* for attempt in range(15): ... of insert_text_fit, from attempt with
\* working size current_size (thousandths) on the padded rect r.
RECURSIVE fit_loop(_, _, _, _, _)
fit_loop(r, attempt, current_size, capN, capE) ==
  LET safe_size == Max(current_size, 8000)
      fallback  == [result |-> FALSE, attempts |-> attempt, size |-> current_size,
                    draws |-> <<TextLine(r[1], r[2] * 100 + safe_size, safe_size)>>,
                    tries |-> <<>>]
  IN IF attempt >= 15 THEN fallback
     ELSE LET expanded       == current_size < 8000
              effective_size == Max(current_size, 8000)
              target_r       == target_rect(r, current_size)
              shrunk         == shrink(current_size)
              this           == <<Attempt(r, current_size)>>
          IN IF insert_textbox_fits(effective_size, expanded, capN, capE)
             THEN [result |-> TRUE, attempts |-> attempt + 1, size |-> current_size,
                   draws |-> <<TextBox(target_r, effective_size)>>,
                   tries |-> this]
             ELSE IF shrunk < 3000
                  THEN LET s == Max(shrunk, 8000)
                       IN [result |-> FALSE, attempts |-> attempt + 1, size |-> shrunk,
                           draws |-> <<TextLine(r[1], r[2] * 100 + s, s)>>,
                           tries |-> this]
                  ELSE LET rest == fit_loop(r, attempt + 1, shrunk, capN, capE)
                       IN [rest EXCEPT !.tries = this \o @]

padded_rect(rect, base10) ==
  LET pad_px == Max(12, base10 \div 5)
  IN <<rect[1] - pad_px, rect[2] - pad_px, rect[3] + pad_px, rect[4] + pad_px>>

\* utils.py insert_text_fit with pad_px = None and debug_outline = False.
insert_text_fit(rect, base10, measure, capN, capE) ==
  LET r == padded_rect(rect, base10)
      current_size == ToMilli(calculate_fitting_fontsize(
                        r[3] - r[1], r[4] - r[2], measure,
                        FracNorm(<<base10 * 105, 1000>>)))
  IN fit_loop(r, 0, current_size, capN, capE)

\* ---------------------------- SpecFit ---------------------------------

FitRects == {<<100, 100, 1100, 220>>, <<100, 100, 500, 220>>,
             <<100, 100, 100, 220>>, <<100, 100, 70, 220>>}

FitBases == {40, 60, 120, 140}

\* largest size (thousandths) at which the text fits as a wrapped box
FitCaps == {0, 8000, 9000, 12600}

InitFit ==
  /\ fitIn \in [rect : FitRects, base10 : FitBases, measure : Measures,
                capN : FitCaps, capE : FitCaps]
  /\ fitIn.capN <= fitIn.capE
  /\ fitOut = NoFitOut
  /\ IdleIoU
  /\ IdleStyle
  /\ IdleTable
  /\ IdleRun
  /\ IdleTranslate
  /\ IdleFill
  /\ IdleErase
  /\ IdleLayout
  /\ IdleFont
  /\ IdleSeg
  /\ IdleAgg
  /\ IdleAll
  /\ IdleLang

CallCalculateFittingFontsize ==
  /\ fitIn # <<>>
  /\ fitOut.fn = ""
  /\ fitOut' = [NoFitOut EXCEPT
                  !.fn = "calculate_fitting_fontsize",
                  !.size = calculate_fitting_fontsize(
                             fitIn.rect[3] - fitIn.rect[1],
                             fitIn.rect[4] - fitIn.rect[2],
                             fitIn.measure, <<fitIn.base10, 10>>)]
  /\ UNCHANGED <<fitIn, iouVars, styleVars, tableVars, runVars, trVars,
                 fillVars, eraseVars, layVars, fontVars, segVars, aggVars,
                 allVars, langVars>>

CallInsertTextFit ==
  /\ fitIn # <<>>
  /\ fitOut.fn = ""
  /\ LET rv == insert_text_fit(fitIn.rect, fitIn.base10, fitIn.measure,
                               fitIn.capN, fitIn.capE)
     IN fitOut' = [fn |-> "insert_text_fit", size |-> <<rv.size, 1000>>,
                   result |-> rv.result, draws |-> rv.draws,
                   attempts |-> rv.attempts, tries |-> rv.tries]
  /\ UNCHANGED <<fitIn, iouVars, styleVars, tableVars, runVars, trVars,
                 fillVars, eraseVars, layVars, fontVars, segVars, aggVars,
                 allVars, langVars>>

NextFit == CallCalculateFittingFontsize \/ CallInsertTextFit

SpecFit == InitFit /\ [][NextFit]_vars

\* ---- properties of SpecFit ----

FitPadded == padded_rect(fitIn.rect, fitIn.base10)

\* C13: every call of insert_text_fit leaves exactly one draw: when it
\* returns True the draw is an insert_textbox that fitted, when it returns
\* False it is one insert_text at (padded x0, padded y0 + safe size) with
\* safe size = max(working size, 8.0).
C13_OneDraw ==
  fitOut.fn = "insert_text_fit" =>
    /\ Len(fitOut.draws) = 1
    /\ fitOut.result =>
         /\ fitOut.draws[1].op = "insert_textbox"
         /\ insert_textbox_fits(fitOut.draws[1].size,
                                fitOut.draws[1].rect # FitPadded,
                                fitIn.capN, fitIn.capE)
    /\ ~fitOut.result =>
         /\ fitOut.draws[1].op = "insert_text"
         /\ fitOut.draws[1].size = Max(fitOut.size[1], 8000)
         /\ fitOut.draws[1].x = FitPadded[1]
         /\ fitOut.draws[1].y = FitPadded[2] * 100 + fitOut.draws[1].size
         /\ ~insert_textbox_fits(8000, TRUE, fitIn.capN, fitIn.capE)

\* the fallback after the whole ladder overflowed
C13_Witness ==
  /\ fitOut.fn = "insert_text_fit"
  /\ ~fitOut.result
  /\ fitOut.attempts > 5
  /\ fitOut.draws[1].op = "insert_text"
  /\ fitOut.draws[1].size = 8000

\* a later attempt of the ladder fits
C13_FitReached ==
  /\ fitOut.fn = "insert_text_fit"
  /\ fitOut.result
  /\ fitOut.attempts > 1

FitCase ==
  /\ fitOut.fn = "calculate_fitting_fontsize"
  /\ fitIn.rect[3] - fitIn.rect[1] > 0
  /\ fitIn.rect[4] - fitIn.rect[2] > 0
  /\ fitIn.measure.ok
  /\ fitIn.measure.width > fitIn.rect[3] - fitIn.rect[1]

\* predicted width (measured width x returned size / base size) is at most
\* 0.95 x rect width
PredictedFits ==
  fitIn.measure.width * fitOut.size[1] * 10 * 100
    <= 95 * (fitIn.rect[3] - fitIn.rect[1]) * fitOut.size[2] * fitIn.base10

FloorBinds ==
  fitIn.base10 * (fitIn.rect[3] - fitIn.rect[1]) * 95
    < 5 * 10 * fitIn.measure.width * 100

C14_FloorAboveBase ==
  /\ FitCase
  /\ fitOut.size = <<5, 1>>
  /\ fitIn.base10 = 40

\* the working size insert_text_fit starts from
FitStart ==
  ToMilli(calculate_fitting_fontsize(FitPadded[3] - FitPadded[1],
                                     FitPadded[4] - FitPadded[2], fitIn.measure,
                                     FracNorm(<<fitIn.base10 * 105, 1000>>)))

TryFits(i) ==
  fitOut.tries[i].size <= (IF fitOut.tries[i].working < 8000
                           THEN fitIn.capE ELSE fitIn.capN)

\* C24: insert_text_fit makes between 1 and 15 wrapped-layout attempts;
\* the first works at the start size and each next one at 0.90 x the
\* working size of the one before, which overflowed; the last attempt is
\* the first that fits, or the 15th, or the one after which 0.90 x the
\* working size is below 3.0.
C24_Terminates ==
  fitOut.fn = "insert_text_fit" =>
    LET n == Len(fitOut.tries)
    IN /\ n \in 1..15
       /\ n = fitOut.attempts
       /\ fitOut.tries[1].working = FitStart
       /\ \A i \in 1..(n - 1) :
            /\ ~TryFits(i)
            /\ 10 * fitOut.tries[i + 1].working <= 9 * fitOut.tries[i].working
            /\ 9 * fitOut.tries[i].working < 10 * (fitOut.tries[i + 1].working + 1)
            /\ fitOut.tries[i + 1].working >= 3000
       /\ fitOut.result = TryFits(n)
       /\ ~TryFits(n) => (n = 15 \/ 9 * fitOut.tries[n].working < 10 * 3000)

\* fifteen attempts overflowed and the working size is still 3.0 or more
C24_Witness ==
  /\ fitOut.fn = "insert_text_fit"
  /\ Len(fitOut.tries) = 15
  /\ ~fitOut.result
  /\ fitOut.size[1] >= 3000
  /\ fitOut.tries[1].working = 14700

\* the loop left early because the working size dropped below 3.0
C24_SafetyBreakReached ==
  /\ fitOut.fn = "insert_text_fit"
  /\ ~fitOut.result
  /\ Len(fitOut.tries) < 15
  /\ fitOut.size[1] < 3000

\* C25: every attempt and the fallback draw use a size of 8.0 or more; an
\* attempt with a working size below 8.0 uses exactly 8.0 on the padded
\* rect with its bottom edge 33.6 lower, an attempt with a working size of
\* 8.0 or more uses the working size on the padded rect; the lineheight
\* argument is 1.25 x the size used.
C25_Floor ==
  fitOut.fn = "insert_text_fit" =>
    /\ \A i \in 1..Len(fitOut.tries) :
         LET t == fitOut.tries[i]
         IN /\ t.size >= 8000
            /\ t.working < 8000 =>
                 /\ t.size = 8000
                 /\ t.rect = <<FitPadded[1], FitPadded[2], FitPadded[3],
                               FitPadded[4] + 336>>
            /\ t.working >= 8000 =>
                 /\ t.size = t.working
                 /\ t.rect = FitPadded
            /\ 4 * t.lineheight[1] = 5 * t.size * t.lineheight[2]
    /\ \A d \in 1..Len(fitOut.draws) :
         /\ fitOut.draws[d].size >= 8000
         /\ fitOut.draws[d].op = "insert_textbox" =>
              /\ fitOut.draws[d].rect = fitOut.tries[Len(fitOut.tries)].rect
              /\ fitOut.draws[d].size = fitOut.tries[Len(fitOut.tries)].size

\* attempts above the floor on the padded rect, then several attempts at
\* 8.0 on the same expanded rect, then the fallback at 8.0
C25_Witness ==
  /\ fitOut.fn = "insert_text_fit"
  /\ ~fitOut.result
  /\ Len(fitOut.tries) >= 10
  /\ fitOut.tries[1].working > 8000 /\ fitOut.tries[1].rect = FitPadded
  /\ fitOut.tries[9].working < 8000 /\ fitOut.tries[10].working < 8000
  /\ fitOut.tries[9].rect = fitOut.tries[10].rect
  /\ fitOut.tries[10].rect[4] = FitPadded[4] + 336
  /\ fitOut.draws[1].op = "insert_text" /\ fitOut.draws[1].size = 8000

\* ======================================================================
\* EraseFillPicker (utils.py): _to_rgb, _rel_luminance and
\* pick_redact_fill_for_color.  A colour component is kept in hundredths
\* (0..100 for 0.0..1.0), a luminance in millionths.
\* ======================================================================

Clamp01(v) == Max(0, Min(100, v))

\* utils.py _to_rgb: an empty colour is black, a 1-tuple is a gray used for
\* the three channels, otherwise the first three components, clamped.
to_rgb(color) ==
  IF Len(color) = 0 THEN <<0, 0, 0>>
  ELSE IF Len(color) = 1 THEN <<color[1], color[1], color[1]>>
  ELSE <<Clamp01(color[1]), Clamp01(color[2]), Clamp01(color[3])>>

\* utils.py _rel_luminance: 0.2126 r + 0.7152 g + 0.0722 b
rel_luminance(rgb) == 2126 * rgb[1] + 7152 * rgb[2] + 722 * rgb[3]

BLACK == <<0, 0, 0>>
WHITE == <<100, 100, 100>>

\* mutant of pick_redact_fill_for_color: the boundary excluded
pick_redact_fill_strict(color) ==
  IF rel_luminance(to_rgb(color)) > 850000 THEN BLACK ELSE WHITE

\* utils.py pick_redact_fill_for_color: black if L >= 0.85 else white
pick_redact_fill_for_color(color) ==
  IF rel_luminance(to_rgb(color)) >= 850000 THEN BLACK ELSE WHITE

\* --------------------------- SpecFill ---------------------------------

Components == {0, 8, 36, 68, 85, 92, 95, 100}

Colors == {<<v>> : v \in Components}
          \cup {<<r, g, b>> : r, g, b \in Components}
          \cup {<<r, g, b, a>> : r, g, b \in Components, a \in {0, 100}}

InitFill ==
  /\ fillIn \in Colors
  /\ fillOut = NoFillOut
  /\ IdleIoU
  /\ IdleStyle
  /\ IdleTable
  /\ IdleRun
  /\ IdleTranslate
  /\ IdleFit
  /\ IdleErase
  /\ IdleLayout
  /\ IdleFont
  /\ IdleSeg
  /\ IdleAgg
  /\ IdleAll
  /\ IdleLang

CallPickRedactFill ==
  /\ fillIn # <<>>
  /\ ~fillOut.called
  /\ fillOut' = [called |-> TRUE, fill |-> pick_redact_fill_for_color(fillIn)]
  /\ UNCHANGED <<fillIn, iouVars, styleVars, tableVars, runVars, trVars, fitVars,
                 eraseVars, layVars, fontVars, segVars, aggVars, allVars, langVars>>

NextFill == CallPickRedactFill

SpecFill == InitFill /\ [][NextFill]_vars

\* ---- properties of SpecFill ----

\* L = 0.2126 R + 0.7152 G + 0.0722 B of the colour, a gray standing for
\* the three channels and alpha left out, in millionths
LumOf(color) ==
  IF Len(color) = 1
  THEN 2126 * color[1] + 7152 * color[1] + 722 * color[1]
  ELSE 2126 * color[1] + 7152 * color[2] + 722 * color[3]

\* C15: the fill is black when L >= 0.85 and white otherwise, for every
\* gray, RGB and RGBA colour with components in [0,1].
C15_FillByLuminance ==
  fillOut.called =>
    fillOut.fill = (IF LumOf(fillIn) >= 850000 THEN BLACK ELSE WHITE)

\* an RGB colour whose luminance is exactly 0.85 gets the black fill
C15_Witness ==
  /\ fillOut.called
  /\ Len(fillIn) = 3
  /\ fillIn[1] # fillIn[2]
  /\ LumOf(fillIn) = 850000
  /\ fillOut.fill = BLACK

\* luminance 0.92 -> black, 0.08 -> white
C15_GrayExamples ==
  /\ fillOut.called
  /\ \/ fillIn = <<92>> /\ fillOut.fill = BLACK
     \/ fillIn = <<8>> /\ fillOut.fill = WHITE

\* ======================================================================
\* The erase step (pipeline.py): erase_original_text for the span, line
\* and block modes, and the erase sections of run_mode's overlay and
\* hybrid modes.  The log holds the calls made on the output pages.
\* ======================================================================

NPages == 2

Ev(ev, pno) == [ev |-> ev, page |-> pno]

\* for sp in spans: spans_by_page.setdefault(sp.page, []).append(sp):
\* the page numbers in the order of their first span
RECURSIVE spans_by_page(_, _, _)
spans_by_page(us, i, acc) ==
  IF i > Len(us) THEN acc
  ELSE spans_by_page(us, i + 1,
         IF \E j \in 1..Len(acc) : acc[j] = us[i].page
         THEN acc ELSE Append(acc, us[i].page))

\* mutant of apply_redactions_each: no try/except around apply_redactions
RECURSIVE apply_redactions_unguarded(_, _, _, _)
apply_redactions_unguarded(order, i, fails, log) ==
  IF i > Len(order) THEN [log |-> log, raised |-> FALSE]
  ELSE IF order[i] \in fails
       THEN [log |-> Append(log, Ev("apply", order[i])), raised |-> TRUE]
       ELSE apply_redactions_unguarded(order, i + 1, fails,
                                       Append(log, Ev("apply", order[i])))

\* for pno in redacted_pages: try: out[pno].apply_redactions()
\* except Exception as e: print(...)
RECURSIVE apply_redactions_each(_, _, _, _)
apply_redactions_each(order, i, fails, log) ==
  IF i > Len(order) THEN [log |-> log, raised |-> FALSE]
  ELSE apply_redactions_each(order, i + 1, fails,
         IF order[i] \in fails
         THEN log \o <<Ev("apply", order[i]), Ev("error", order[i])>>
         ELSE Append(log, Ev("apply", order[i])))

\* the inner loops of erase_original_text for one page: a draw_rect
\* (mask) or an add_redact_annot (redact) per span whose padded rect is
\* not empty
RECURSIVE erase_spans_of_page(_, _, _, _, _)
erase_spans_of_page(us, i, pno, erase_mode, log) ==
  IF i > Len(us) THEN log
  ELSE erase_spans_of_page(us, i + 1, pno, erase_mode,
         IF us[i].page = pno /\ ~us[i].empty
         THEN Append(log, Ev(IF erase_mode = "mask" THEN "draw_rect"
                             ELSE "add_redact_annot", pno))
         ELSE log)

\* pipeline.py erase_original_text, the loop over spans_by_page from its
\* k-th page on
RECURSIVE erase_pages(_, _, _, _, _, _)
erase_pages(us, pages, k, erase_mode, fails, log) ==
  IF k > Len(pages) THEN [log |-> log, raised |-> FALSE]
  ELSE LET pno   == pages[k]
           added == erase_spans_of_page(us, 1, pno, erase_mode, log)
           rv    == IF erase_mode = "redact" /\ Len(added) > Len(log)
                    THEN apply_redactions_each(<<pno>>, 1, fails, added)
                    ELSE [log |-> added, raised |-> FALSE]
       IN IF rv.raised THEN rv
          ELSE erase_pages(us, pages, k + 1, erase_mode, fails, rv.log)

erase_original_text(us, erase_mode, fails) ==
  IF erase_mode \notin {"mask", "redact"}
  THEN [log |-> <<>>, raised |-> FALSE]
  ELSE erase_pages(us, spans_by_page(us, 1, <<>>), 1, erase_mode, fails, <<>>)

\* the loop over overlay_items (or hblocks) of run_mode's erase sections:
\* items of a page outside the document and empty rects are skipped
RECURSIVE erase_rects(_, _, _, _)
erase_rects(us, i, erase_mode, log) ==
  IF i > Len(us) THEN log
  ELSE erase_rects(us, i + 1, erase_mode,
         IF us[i].page < 0 \/ us[i].page >= NPages \/ us[i].empty THEN log
         ELSE Append(log, Ev(IF erase_mode = "mask" THEN "draw_rect"
                             ELSE "add_redact_annot", us[i].page)))

redacted_pages(us, erase_mode) ==
  IF erase_mode # "redact" THEN {}
  ELSE {us[i].page : i \in {j \in 1..Len(us) :
                             /\ us[j].page >= 0
                             /\ us[j].page < NPages
                             /\ ~us[j].empty}}

\* the orders in which a Python set can hand out its elements
Orders(S) == {o \in [1..Cardinality(S) -> S] :
                \A i, j \in 1..Cardinality(S) : i # j => o[i] # o[j]}

\* run_mode, mode == "overlay", erase section (pipeline.py:184-215)
erase_overlay(items, erase_mode, fails, order) ==
  IF erase_mode \notin {"mask", "redact"}
  THEN [log |-> <<>>, raised |-> FALSE]
  ELSE LET log == erase_rects(items, 1, erase_mode, <<>>)
       IN IF erase_mode = "redact"
          THEN apply_redactions_each(order, 1, fails, log)
          ELSE [log |-> log, raised |-> FALSE]

\* run_mode, mode == "hybrid", erase section (pipeline.py:324-367): the
\* overlay items if there are any, the blocks otherwise
erase_hybrid(items, blocks, erase_mode, fails, order) ==
  erase_overlay(IF Len(items) > 0 THEN items ELSE blocks, erase_mode, fails, order)

\* --------------------------- SpecErase --------------------------------

ErasePaths == {"erase_original_text", "overlay", "hybrid_items", "hybrid_blocks"}

EraseModes == {"none", "mask", "redact"}

\* a span, overlay item or block as the erase step sees it: its page and
\* whether its padded rect, clipped to the page, is empty
EraseUnits == [page : 0..NPages, empty : BOOLEAN]

InitErase ==
  /\ eraseIn \in [path : ErasePaths, erase_mode : EraseModes,
                  us : UNION {[1..n -> EraseUnits] : n \in 0..MaxRects},
                  fails : SUBSET (0..(NPages - 1))]
  /\ eraseIn.path \in {"erase_original_text", "hybrid_blocks"} =>
       \A i \in 1..Len(eraseIn.us) : eraseIn.us[i].page < NPages
  /\ eraseIn.path = "overlay" => Len(eraseIn.us) > 0
  /\ eraseOut = NoEraseOut
  /\ IdleIoU
  /\ IdleStyle
  /\ IdleTable
  /\ IdleRun
  /\ IdleTranslate
  /\ IdleFit
  /\ IdleFill
  /\ IdleLayout
  /\ IdleFont
  /\ IdleSeg
  /\ IdleAgg
  /\ IdleAll
  /\ IdleLang

CallErase ==
  /\ eraseIn # <<>>
  /\ ~eraseOut.called
  /\ \E order \in Orders(redacted_pages(eraseIn.us, eraseIn.erase_mode)) :
       LET rv == CASE eraseIn.path = "erase_original_text" ->
                        erase_original_text(eraseIn.us, eraseIn.erase_mode,
                                            eraseIn.fails)
                   [] eraseIn.path = "overlay" ->
                        erase_overlay(eraseIn.us, eraseIn.erase_mode,
                                      eraseIn.fails, order)
                   [] eraseIn.path = "hybrid_items" ->
                        erase_hybrid(eraseIn.us, <<>>, eraseIn.erase_mode,
                                     eraseIn.fails, order)
                   [] eraseIn.path = "hybrid_blocks" ->
                        erase_hybrid(<<>>, eraseIn.us, eraseIn.erase_mode,
                                     eraseIn.fails, order)
       IN eraseOut' = [called |-> TRUE, log |-> rv.log, raised |-> rv.raised]
  /\ UNCHANGED <<eraseIn, iouVars, styleVars, tableVars, runVars, trVars,
                 fitVars, fillVars, layVars, fontVars, segVars, aggVars, allVars, langVars>>

NextErase == CallErase

SpecErase == InitErase /\ [][NextErase]_vars

\* ---- properties of SpecErase ----

EvAt(ev, pno) == {i \in 1..Len(eraseOut.log) : eraseOut.log[i] = Ev(ev, pno)}

\* C16: with erase_mode 'redact' the erase step returns normally whatever
\* apply_redactions does; apply_redactions is called once on each page that
\* got an annotation, on no other page, and after all annotations of that page.
C16_Contained ==
  (eraseOut.called /\ eraseIn.erase_mode = "redact") =>
    /\ ~eraseOut.raised
    /\ \A pno \in 0..NPages :
         /\ Cardinality(EvAt("apply", pno)) =
              (IF EvAt("add_redact_annot", pno) # {} THEN 1 ELSE 0)
         /\ \A i \in EvAt("add_redact_annot", pno) :
              \A j \in EvAt("apply", pno) : i < j
         /\ EvAt("error", pno) # {} <=>
              (pno \in eraseIn.fails /\ EvAt("apply", pno) # {})

\* apply_redactions raised on the first page applied and was still called
\* on the other one
C16_Witness ==
  /\ eraseOut.called
  /\ eraseIn.erase_mode = "redact"
  /\ eraseIn.path = "hybrid_blocks"
  /\ Len(eraseOut.log) = 6
  /\ eraseOut.log[4].ev = "apply"
  /\ eraseOut.log[5].ev = "error"
  /\ eraseOut.log[6].ev = "apply"
  /\ eraseOut.log[6].page # eraseOut.log[4].page

\* the same in erase_original_text, page by page
C16_PerPageReached ==
  /\ eraseOut.called
  /\ eraseIn.path = "erase_original_text"
  /\ Len(eraseOut.log) = 5
  /\ eraseOut.log[2].ev = "apply"
  /\ eraseOut.log[3].ev = "error"
  /\ eraseOut.log[5].ev = "apply"

\* ---- properties of SpecRun: one HybridBlock per raw block ----

\* C17 as stated: in hybrid mode every raw block with lines (each has a
\* text of its own) is held once in hblocks, is submitted once and is drawn
\* once.
C17_AsStated ==
  mode = "hybrid" =>
    /\ \A i, j \in 1..Len(hblocks) :
         i # j => hblocks[i].text # hblocks[j].text
    /\ \A i, j \in 1..Len(requests) : i # j => requests[i] # requests[j]
    /\ \A i, j \in 1..Len(page_ops) :
         i # j => <<page_ops[i].rect, page_ops[i].text>>
                    # <<page_ops[j].rect, page_ops[j].text>>

\* a document of one block that is not table-like: hblocks holds it
\* twice, two equal requests are submitted, the translation is drawn twice
\* into the same rect
C17_Diverges ==
  /\ mode = "hybrid"
  /\ pc = "saved"
  /\ Len(hblocks) = 2
  /\ hblocks[1] = hblocks[2]
  /\ Len(requests) = 2
  /\ requests[1] = requests[2]
  /\ Len(page_ops) = 2
  /\ page_ops[1].rect = page_ops[2].rect
  /\ page_ops[1].text = page_ops[2].text

\* ======================================================================
\* AI-layout extraction (hybrid.py extract_blocks_from_layout), for one
\* page: the analyzer's boxes in image pixels, and for each box the lines
\* page.get_text("dict", clip=box in points) hands back.  Texts are
\* sequences of characters; a coordinate in page units is an exact
\* fraction.
\* ======================================================================

RECURSIVE join_texts(_, _, _)
join_texts(sep, items, i) ==
  IF i > Len(items) THEN <<>>
  ELSE IF i = Len(items) THEN items[i]
  ELSE items[i] \o sep \o join_texts(sep, items, i + 1)

\* mutant of layout_rect: both axes scaled by sx
layout_rect_sx_only(box, page) ==
  <<FracNorm(<<box[1] * page.width, page.pix_width>>),
    FracNorm(<<box[2] * page.width, page.pix_width>>),
    FracNorm(<<box[3] * page.width, page.pix_width>>),
    FracNorm(<<box[4] * page.width, page.pix_width>>)>>

\* r_pt = fitz.Rect(r_px[0]*sx, r_px[1]*sy, r_px[2]*sx, r_px[3]*sy) with
\* sx = page.rect.width / pix.width, sy = page.rect.height / pix.height
layout_rect(box, page) ==
  <<FracNorm(<<box[1] * page.width, page.pix_width>>),
    FracNorm(<<box[2] * page.height, page.pix_height>>),
    FracNorm(<<box[3] * page.width, page.pix_width>>),
    FracNorm(<<box[4] * page.height, page.pix_height>>)>>

\* pieces of a line: its spans whose stripped text is not empty
pieces_of(spans_of_line) ==
  SelectSeq([k \in 1..Len(spans_of_line) |->
               [bbox |-> spans_of_line[k].bbox,
                text |-> strip(spans_of_line[k].text),
                size |-> spans_of_line[k].size]],
            LAMBDA p : p.text # <<>>)

\* the HybridLine of a line with pieces: the union of their rects, their
\* texts joined by a blank, one segment for the whole line
layout_line(pieces) ==
  LET idx  == 1..Len(pieces)
      rect == <<SetMin({pieces[k].bbox[1] : k \in idx}),
                SetMin({pieces[k].bbox[2] : k \in idx}),
                SetMax({pieces[k].bbox[3] : k \in idx}),
                SetMax({pieces[k].bbox[4] : k \in idx})>>
      line_text == join_texts(<<" ">>, [k \in idx |-> pieces[k].text], 1)
      seg == [rect |-> rect, text |-> line_text,
              sizes |-> [k \in idx |-> pieces[k].size]]
  IN [rect |-> rect, text |-> line_text, segments |-> <<seg>>]

\* lines of one box: the lines of the clipped extraction that have pieces
RECURSIVE layout_lines(_, _, _)
layout_lines(clip, i, acc) ==
  IF i > Len(clip) THEN acc
  ELSE LET pieces == pieces_of(clip[i])
       IN layout_lines(clip, i + 1,
            IF Len(clip[i]) = 0 \/ Len(pieces) = 0 THEN acc
            ELSE Append(acc, layout_line(pieces)))

\* hybrid.py extract_blocks_from_layout, the loop over ai_boxes of a page
RECURSIVE layout_blocks(_, _, _)
layout_blocks(page, i, blocks) ==
  IF i > Len(page.boxes) THEN blocks
  ELSE LET r_pt  == layout_rect(page.boxes[i].box, page)
           lines == layout_lines(page.boxes[i].clip, 1, <<>>)
       IN layout_blocks(page, i + 1,
            IF Len(lines) = 0 THEN blocks
            ELSE Append(blocks,
                   [page |-> page.pno, rect |-> r_pt, lines |-> lines,
                    text |-> join_texts(<<"\n">>,
                               [l \in 1..Len(lines) |-> lines[l].text], 1)]))

extract_blocks_from_layout(page) == layout_blocks(page, 1, <<>>)

\* -------------------------- SpecLayout -------------------------------

MaxBoxes == 2

\* a page with its pixmap at 150 dpi
PageGeoms == {[width |-> 100, height |-> 100, pix_width |-> 208, pix_height |-> 208],
              [width |-> 100, height |-> 150, pix_width |-> 208, pix_height |-> 313]}

LSpan(text, x0, x1) == [text |-> text, bbox |-> <<x0, 10, x1, 20>>, size |-> 115]

\* the span lists of a line of a clipped extraction
ClipLines == {<<>>,
              <<LSpan(<<" ">>, 10, 12)>>,
              <<LSpan(<<"a">>, 10, 20)>>,
              <<LSpan(<<"a">>, 10, 20), LSpan(<<" ">>, 20, 40)>>,
              <<LSpan(<<"b", " ">>, 22, 30), LSpan(<<"a">>, 10, 20)>>}

Clips == UNION {[1..n -> ClipLines] : n \in 0..2}

AiBox(i) == <<5 + 50 * (i - 1), 5, 50 * i, 50>>

InitLayout ==
  /\ layIn \in {[pno |-> 0, width |-> g.width, height |-> g.height,
                 pix_width |-> g.pix_width, pix_height |-> g.pix_height,
                 boxes |-> [i \in 1..Len(cs) |-> [box |-> AiBox(i), clip |-> cs[i]]]] :
                  g \in PageGeoms,
                  cs \in UNION {[1..n -> Clips] : n \in 0..MaxBoxes}}
  /\ layOut = NoLayOut
  /\ IdleIoU
  /\ IdleStyle
  /\ IdleTable
  /\ IdleRun
  /\ IdleTranslate
  /\ IdleFit
  /\ IdleFill
  /\ IdleErase
  /\ IdleFont
  /\ IdleSeg
  /\ IdleAgg
  /\ IdleAll
  /\ IdleLang

CallExtractBlocksFromLayout ==
  /\ layIn # <<>>
  /\ ~layOut.called
  /\ layOut' = [called |-> TRUE, blocks |-> extract_blocks_from_layout(layIn)]
  /\ UNCHANGED <<layIn, iouVars, styleVars, tableVars, runVars, trVars,
                 fitVars, fillVars, eraseVars, fontVars, segVars, aggVars, allVars, langVars>>

NextLayout == CallExtractBlocksFromLayout

SpecLayout == InitLayout /\ [][NextLayout]_vars

\* ---- properties of SpecLayout ----

\* the boxes whose clipped extraction holds a span with text that is not
\* blank, in the analyzer's order
HasText(clip) ==
  \E l \in 1..Len(clip) : \E k \in 1..Len(clip[l]) :
    \E c \in 1..Len(clip[l][k].text) : ~IsSpace(clip[l][k].text[c])

TextBoxes == SelectSeq([i \in 1..Len(layIn.boxes) |-> i],
                       LAMBDA i : HasText(layIn.boxes[i].clip))

\* C18: one HybridBlock per box with text, in box order; its rect is the
\* box scaled by (page width / image width, page height / image height);
\* each of its lines has one segment with the line's rect and text.
C18_Layout ==
  layOut.called =>
    /\ Len(layOut.blocks) = Len(TextBoxes)
    /\ \A n \in 1..Len(layOut.blocks) :
         LET blk == layOut.blocks[n]
             box == layIn.boxes[TextBoxes[n]].box
         IN /\ FracEQ(blk.rect[1], <<box[1] * layIn.width, layIn.pix_width>>)
            /\ FracEQ(blk.rect[2], <<box[2] * layIn.height, layIn.pix_height>>)
            /\ FracEQ(blk.rect[3], <<box[3] * layIn.width, layIn.pix_width>>)
            /\ FracEQ(blk.rect[4], <<box[4] * layIn.height, layIn.pix_height>>)
            /\ Len(blk.lines) > 0
            /\ \A l \in 1..Len(blk.lines) :
                 /\ Len(blk.lines[l].segments) = 1
                 /\ blk.lines[l].segments[1].rect = blk.lines[l].rect
                 /\ blk.lines[l].segments[1].text = blk.lines[l].text

\* two boxes, the first without text: the one block is the second box's,
\* and its line of two spans is one segment
C18_Witness ==
  /\ layOut.called
  /\ Len(layIn.boxes) = 2
  /\ layIn.height = 150
  /\ TextBoxes = <<2>>
  /\ Len(layOut.blocks) = 1
  /\ layOut.blocks[1].rect[1] = <<1375, 52>>
  /\ layOut.blocks[1].lines[1].text = <<"b", " ", "a">>
  /\ Len(layOut.blocks[1].lines[1].segments) = 1

\* ======================================================================
\* FontMatcher (font_matcher.py).  A font file path is a record of its
\* directory, the pieces of its base name and its extension; the file
\* system is the set of paths that exist.
\* ======================================================================

FontPath(root) == [dir |-> "fonts", root |-> root, ext |-> ".ttf"]

\* name_root.replace("-Regular", "")
RECURSIVE drop_dash_regular(_, _)
drop_dash_regular(root, i) ==
  IF i > Len(root) THEN <<>>
  ELSE IF i < Len(root) /\ root[i] = "-" /\ root[i + 1] = "Regular"
       THEN drop_dash_regular(root, i + 2)
       ELSE <<root[i]>> \o drop_dash_regular(root, i + 1)

\* .replace("Regular", "")
drop_regular(root) == SelectSeq(root, LAMBDA t : t # "Regular")

\* the candidates of a variant: f"{prefix}{suf}{ext}" in the Regular file's
\* directory, for suf in ["-Bold", "Bold"]
bold_candidates(base_path) ==
  LET prefix == drop_regular(drop_dash_regular(base_path.root, 1))
  IN <<[base_path EXCEPT !.root = prefix \o <<"-", "Bold">>],
       [base_path EXCEPT !.root = prefix \o <<"Bold">>]>>

\* mutant of discover_bold: the first candidate taken without os.path.exists
discover_bold_unchecked(base_path, files) ==
  IF base_path \notin files THEN base_path
  ELSE bold_candidates(base_path)[1]

\* registry[lang]["bold"] after __init__ and _auto_discover_variants: the
\* Regular path unless the Regular file exists and a candidate exists
discover_bold(base_path, files) ==
  IF base_path \notin files THEN base_path
  ELSE LET cands == bold_candidates(base_path)
       IN IF cands[1] \in files THEN cands[1]
          ELSE IF cands[2] \in files THEN cands[2]
          ELSE base_path

\* original_flags & TEXT_FLAG_BOLD
HasBit(flags, bit) == (flags \div bit) % 2 = 1

\* FontMatcher(en_regular_path, hi_regular_path).match_font(script,
\* original_flags, original_font_name)
match_font(en_regular, hi_regular, files, script, original_flags, original_font_name) ==
  LET lang      == IF script = "hi" THEN "hi" ELSE "en"
      regular   == IF lang = "hi" THEN hi_regular ELSE en_regular
      is_bold   == HasBit(original_flags, 16)
      font_path == IF is_bold THEN discover_bold(regular, files) ELSE regular
  IN [font_name |-> font_path.root, font_path |-> font_path]

\* --------------------------- SpecFont ---------------------------------

EnRegulars == {FontPath(<<"NotoSans", "-", "Regular">>), FontPath(<<"Arial">>)}

HiRegulars == {FontPath(<<"Tiro", "Regular">>)}

FontFiles == EnRegulars \cup HiRegulars
             \cup {FontPath(<<"NotoSans", "-", "Bold">>),
                   FontPath(<<"NotoSans", "Bold">>),
                   FontPath(<<"Arial", "Bold">>),
                   FontPath(<<"Tiro", "-", "Bold">>),
                   FontPath(<<"NotoSans", "-", "Italic">>)}

Scripts == {"hi", "en", "vi"}

FontFlags == {0, 2, 4, 16, 18, 20, 22}

FontNames == {"", "Times-Bold"}

InitFont ==
  /\ fontIn \in [en_regular : EnRegulars, hi_regular : HiRegulars,
                 files : SUBSET FontFiles, script : Scripts,
                 flags : FontFlags, name : FontNames]
  /\ fontOut = NoFontOut
  /\ IdleIoU
  /\ IdleStyle
  /\ IdleTable
  /\ IdleRun
  /\ IdleTranslate
  /\ IdleFit
  /\ IdleFill
  /\ IdleErase
  /\ IdleLayout
  /\ IdleSeg
  /\ IdleAgg
  /\ IdleAll
  /\ IdleLang

CallMatchFont ==
  /\ fontIn # <<>>
  /\ ~fontOut.called
  /\ LET rv == match_font(fontIn.en_regular, fontIn.hi_regular, fontIn.files,
                          fontIn.script, fontIn.flags, fontIn.name)
     IN fontOut' = [called |-> TRUE, font_name |-> rv.font_name,
                    font_path |-> rv.font_path]
  /\ UNCHANGED <<fontIn, iouVars, styleVars, tableVars, runVars, trVars,
                 fitVars, fillVars, eraseVars, layVars, segVars, aggVars,
                 allVars, langVars>>

NextFont == CallMatchFont

SpecFont == InitFont /\ [][NextFont]_vars

\* ---- properties of SpecFont ----

RegularOf == IF fontIn.script = "hi" THEN fontIn.hi_regular ELSE fontIn.en_regular

\* the Bold siblings of a Regular file that exist next to it
BoldSiblings ==
  IF RegularOf \notin fontIn.files THEN {}
  ELSE {f \in fontIn.files :
          /\ f.dir = RegularOf.dir /\ f.ext = RegularOf.ext
          /\ Len(f.root) > 0 /\ f.root[Len(f.root)] = "Bold"
          /\ f.root[1] = RegularOf.root[1]}

\* C19: match_font returns a Bold sibling when the bold bit is set and one
\* was discovered, the script's Regular file otherwise; the logical name is
\* the file's base name without extension; the path exists whenever the
\* Regular files do.
C19_MatchFont ==
  fontOut.called =>
    /\ IF HasBit(fontIn.flags, 16) /\ BoldSiblings # {}
       THEN fontOut.font_path \in BoldSiblings
       ELSE fontOut.font_path = RegularOf
    /\ fontOut.font_name = fontOut.font_path.root
    /\ ({fontIn.en_regular, fontIn.hi_regular} \subseteq fontIn.files
          => fontOut.font_path \in fontIn.files)

\* a Latin-resolved script with bold and italic bits set gets NotoSans-Bold
C19_Witness ==
  /\ fontOut.called
  /\ fontIn.script = "vi"
  /\ fontIn.flags = 18
  /\ fontIn.en_regular = FontPath(<<"NotoSans", "-", "Regular">>)
  /\ fontOut.font_path = FontPath(<<"NotoSans", "-", "Bold">>)
  /\ fontOut.font_name = <<"NotoSans", "-", "Bold">>

\* no Bold sibling on disk: the Regular file is returned for a bold span
C19_FallbackReached ==
  /\ fontOut.called
  /\ fontIn.script = "hi"
  /\ fontIn.flags = 16
  /\ fontIn.hi_regular \in fontIn.files
  /\ fontOut.font_path = fontIn.hi_regular

\* ---- properties of SpecTable: the line-ratio criterion ----

\* fewer lines of two or more segments than max(2, 0.30 x n)
BelowLineRatio ==
  multi_count(hb) < 2 \/ 10 * multi_count(hb) < 3 * NLines

\* C20 as stated: a block with fewer lines of >= 2 segments than
\* max(2, 0.30 x n) whose segment x-ranges form a single band is not
\* table-like.
C20_AsStated ==
  (tableOut.step >= 1 /\ NLines > 0 /\ BelowLineRatio /\ ~HasBreak)
    => ~tableOut.table_like

\* 7 lines, 2 of them with two segments (28.6%), one band: table-like
C20_Diverges ==
  /\ tableOut.step >= 1
  /\ NLines = 7
  /\ multi_count(hb) = 2
  /\ ~HasBreak
  /\ tableOut.table_like

\* ======================================================================
\* Segment splitting (hybrid.py extract_blocks_with_segments), for one
\* line of a raw block.  A span carries a text (a sequence of characters),
\* a bbox, a size and possibly chars; lengths are integers.
\* ======================================================================

RectHull(rs) ==
  <<SetMin({rs[k][1] : k \in 1..Len(rs)}), SetMin({rs[k][2] : k \in 1..Len(rs)}),
    SetMax({rs[k][3] : k \in 1..Len(rs)}), SetMax({rs[k][4] : k \in 1..Len(rs)})>>

\* the (bb, t) of a span: its text with white space normalised and its
\* bbox, or the joined chars and the hull of their bboxes (the block rect
\* without chars)
span_piece(sp, brect) ==
  IF strip(sp.text) # <<>>
  THEN [bb |-> sp.bbox, t |-> join_words(sp.text, <<>>, FALSE), sz |-> sp.size]
  ELSE [bb |-> IF Len(sp.chars) > 0
               THEN RectHull([k \in 1..Len(sp.chars) |-> sp.chars[k].bbox])
               ELSE brect,
        t  |-> strip(join_texts(<<>>, [k \in 1..Len(sp.chars) |-> <<sp.chars[k].c>>], 1)),
        sz |-> sp.size]

\* pieces.sort(key=lambda it: it[0][0]): stable, by left x; the pieces are
\* inserted last to first, so a piece goes before the equal ones after it
RECURSIVE insert_piece(_, _)
insert_piece(sorted, p) ==
  IF sorted = <<>> THEN <<p>>
  ELSE IF p.bb[1] <= Head(sorted).bb[1] THEN <<p>> \o sorted
  ELSE <<Head(sorted)>> \o insert_piece(Tail(sorted), p)

RECURSIVE sort_pieces(_, _, _)
sort_pieces(pieces, i, acc) ==
  IF i < 1 THEN acc
  ELSE sort_pieces(pieces, i - 1, insert_piece(acc, pieces[i]))

\* mutant of ExceedsSegGap: a gap equal to SEG_GAP splits too
ReachesSegGap(gap, brect) ==
  gap >= 10 /\ 100 * gap >= 12 * Max(1, brect[3] - brect[1])

\* SEG_GAP = max(10.0, 0.12 * bw) with bw = max(1.0, brect[2] - brect[0]):
\* the gap exceeds it
ExceedsSegGap(gap, brect) ==
  gap > 10 /\ 100 * gap > 12 * Max(1, brect[3] - brect[1])

HybridSegmentOf(cur) ==
  [rect  |-> RectHull([k \in 1..Len(cur) |-> cur[k].bb]),
   text  |-> join_texts(<<" ">>, [k \in 1..Len(cur) |-> cur[k].t], 1),
   sizes |-> [k \in 1..Len(cur) |-> cur[k].sz]]

\* the loop "for bb, t, sz in pieces" with its flush after the loop
RECURSIVE split_pieces(_, _, _, _, _)
split_pieces(pieces, i, cur, segments, brect) ==
  IF i > Len(pieces)
  THEN IF cur # <<>> THEN Append(segments, HybridSegmentOf(cur)) ELSE segments
  ELSE IF i > 1 /\ ExceedsSegGap(pieces[i].bb[1] - pieces[i - 1].bb[3], brect)
       THEN split_pieces(pieces, i + 1, <<pieces[i]>>,
                         IF cur # <<>> THEN Append(segments, HybridSegmentOf(cur))
                         ELSE segments, brect)
       ELSE split_pieces(pieces, i + 1, Append(cur, pieces[i]), segments, brect)

\* the body of "for ln in b.get('lines', [])": the HybridLine appended for
\* the line, or nothing (<<>>) for a line without spans or without pieces
line_with_segments(ln, brect) ==
  LET all    == [k \in 1..Len(ln) |-> span_piece(ln[k], brect)]
      pieces == sort_pieces(SelectSeq(all, LAMBDA p : p.t # <<>>),
                            Len(SelectSeq(all, LAMBDA p : p.t # <<>>)), <<>>)
  IN IF Len(ln) = 0 \/ Len(pieces) = 0 THEN <<>>
     ELSE <<[rect     |-> RectHull([k \in 1..Len(all) |-> all[k].bb]),
             text     |-> join_texts(<<" ">>, [k \in 1..Len(pieces) |-> pieces[k].t], 1),
             segments |-> split_pieces(pieces, 1, <<>>, <<>>, brect)]>>

\* -------------------------- SpecSegment ------------------------------

MaxRuns == 3

BlockRects == {<<0, 90, 50, 130>>, <<0, 90, 100, 130>>}

RunRanges == {<<0, 10>>, <<21, 30>>, <<42, 50>>, <<0, 45>>, <<23, 28>>}

\* a span: an x-range with a text, or an outer x-range with a blank text
\* or with chars only
SpanShapes == (RunRanges \X {"text"})
               \cup ({<<0, 10>>, <<42, 50>>} \X {"blank", "chars"})

\* the k-th span of the line: a text with white space to normalise, a
\* blank text, or no text and two chars
RawSpan(k, xr, kind) ==
  LET bbox == <<xr[1], 100 - k, xr[2], 112 + k>>
  IN [text  |-> IF kind = "text"
                THEN <<" ", "w", ToString(k), " ", " ", "z">>
                ELSE IF kind = "blank" THEN <<" ">> ELSE <<>>,
      bbox  |-> bbox,
      size  |-> 100 + k,
      chars |-> IF kind = "chars"
                THEN <<[c |-> "c", bbox |-> <<xr[1], 100 - k, xr[1] + 2, 112 + k>>],
                       [c |-> ToString(k), bbox |-> <<xr[2] - 2, 100 - k, xr[2], 112 + k>>]>>
                ELSE <<>>]

InitSegment ==
  /\ segIn \in {[brect |-> br,
                 spans |-> [k \in 1..Len(sh) |-> RawSpan(k, sh[k][1], sh[k][2])]] :
                  br \in BlockRects,
                  sh \in UNION {[1..n -> SpanShapes] : n \in 0..MaxRuns}}
  /\ segOut = NoSegOut
  /\ IdleIoU
  /\ IdleStyle
  /\ IdleTable
  /\ IdleRun
  /\ IdleTranslate
  /\ IdleFit
  /\ IdleFill
  /\ IdleErase
  /\ IdleLayout
  /\ IdleFont
  /\ IdleAgg
  /\ IdleAll
  /\ IdleLang

CallLineWithSegments ==
  /\ segIn # <<>>
  /\ ~segOut.called
  /\ segOut' = [called |-> TRUE,
                line |-> line_with_segments(segIn.spans, segIn.brect)]
  /\ UNCHANGED <<segIn, iouVars, styleVars, tableVars, runVars, trVars,
                 fitVars, fillVars, eraseVars, layVars, fontVars, aggVars,
                 allVars, langVars>>

NextSegment == CallLineWithSegments

SpecSegment == InitSegment /\ [][NextSegment]_vars

\* ---- properties of SpecSegment ----

\* the spans of the line that are non-empty runs: a text or chars
RunIdx == {k \in 1..Len(segIn.spans) :
             \/ \E c \in 1..Len(segIn.spans[k].text) :
                  ~IsSpace(segIn.spans[k].text[c])
             \/ Len(segIn.spans[k].chars) > 0}

RunLeft(k) == segIn.spans[k].bbox[1]

\* the place of run k in the order by left x, equal left edges in span order
RunRank(k) ==
  1 + Cardinality({j \in RunIdx : RunLeft(j) < RunLeft(k)
                                    \/ (RunLeft(j) = RunLeft(k) /\ j < k)})

RunAt(n) == CHOOSE k \in RunIdx : RunRank(k) = n

\* the places where a run starts more than max(10, 0.12 x block width)
\* right of the right edge of the run before it
Breaks ==
  {n \in 2..Cardinality(RunIdx) :
     LET gap == RunLeft(RunAt(n)) - segIn.spans[RunAt(n - 1)].bbox[3]
         bw  == segIn.brect[3] - segIn.brect[1]
     IN gap > 10 /\ 100 * gap > 12 * bw}

\* the place of the first run of segment m
SegStart(m) ==
  1 + Cardinality({n \in 1..Cardinality(RunIdx) :
                     Cardinality({b \in Breaks : b <= n}) < m - 1})

SegRuns(m) ==
  {n \in 1..Cardinality(RunIdx) : Cardinality({b \in Breaks : b <= n}) = m - 1}

\* C21: the runs of a line, ordered by left x, are cut into consecutive
\* segments exactly at the gaps that exceed max(10, 0.12 x block width);
\* every run is in one segment, no segment is empty, a segment's rect is
\* the union of its runs' rects, and the segment texts joined by single
\* blanks are the line text.
C21_Segments ==
  (segOut.called /\ RunIdx # {}) =>
    /\ Len(segOut.line) = 1
    /\ LET segs == segOut.line[1].segments
       IN /\ Len(segs) = Cardinality(Breaks) + 1
          /\ \A m \in 1..Len(segs) :
               /\ Len(segs[m].sizes) = Cardinality(SegRuns(m))
               /\ Len(segs[m].sizes) > 0
               /\ \A i \in 1..Len(segs[m].sizes) :
                    segs[m].sizes[i] = 100 + RunAt(SegStart(m) + i - 1)
               /\ segs[m].rect =
                    <<SetMin({segIn.spans[RunAt(n)].bbox[1] : n \in SegRuns(m)}),
                      SetMin({segIn.spans[RunAt(n)].bbox[2] : n \in SegRuns(m)}),
                      SetMax({segIn.spans[RunAt(n)].bbox[3] : n \in SegRuns(m)}),
                      SetMax({segIn.spans[RunAt(n)].bbox[4] : n \in SegRuns(m)})>>
          /\ join_texts(<<" ">>, [m \in 1..Len(segs) |-> segs[m].text], 1)
               = segOut.line[1].text

\* three runs given right to left, the middle gap exceeding SEG_GAP only:
\* two segments, the first of two runs
C21_Witness ==
  /\ segOut.called
  /\ Len(segIn.spans) = 3
  /\ Cardinality(RunIdx) = 3
  /\ RunAt(1) = 3
  /\ Breaks = {3}
  /\ Len(segOut.line[1].segments) = 2
  /\ segOut.line[1].segments[1].sizes = <<103, 102>>
  /\ segOut.line[1].segments[2].sizes = <<101>>

\* ======================================================================
\* Coarse style aggregation (textlayer.py): derive_line_styles_from_spans
\* and derive_block_styles_from_spans on one Line or Block.
\* ======================================================================

\* sps = [sp for sp in spans_by_page.get(u.page, []) if rect_iou(u.rect,
\* sp.rect) > pct/100 or point_in_rect(rect_center(sp.rect), u.rect)]
matched_spans(u, sps_all, pct) ==
  SelectSeq(sps_all,
            LAMBDA sp : /\ sp.page = u.page
                        /\ \/ FracGT(rect_iou(u.rect, sp.rect), <<pct, 100>>)
                           \/ point_in_rect(rect_center(sp.rect), u.rect))

\* mutant of style_from_spans: font and flags of the last matched span
style_from_last(u, sps) ==
  IF sps = <<>> THEN u
  ELSE [u EXCEPT !.fontsize = median([i \in 1..Len(sps) |-> sps[i].fontsize]),
                 !.color    = most_common_color(sps),
                 !.font     = sps[Len(sps)].font,
                 !.flags    = sps[Len(sps)].flags]

\* the assignments after "if not sps: continue"
style_from_spans(u, sps) ==
  IF sps = <<>> THEN u
  ELSE [u EXCEPT !.fontsize = median([i \in 1..Len(sps) |-> sps[i].fontsize]),
                 !.color    = most_common_color(sps),
                 !.font     = sps[1].font,
                 !.flags    = sps[1].flags]

derive_line_style(ln, sps_all) ==
  style_from_spans(ln, matched_spans(ln, sps_all, IOU_LINE_PCT))

\* ------------------------- SpecAggregate -----------------------------

MaxAggSpans == 3

\* a Line or Block with the defaults of its dataclass
CoarseUnit == [page |-> 0, rect |-> <<0, 0, 4, 1>>, text |-> "unit",
               fontsize |-> 115, color |-> "gray", font |-> "helv", flags |-> 0]

\* span rects against the unit rect: IoU 0.4 with the centre outside, IoU
\* 0.5 with the centre inside, IoU 4/9 with the centre outside, disjoint
AggRects == {<<0, 0, 10, 1>>, <<1, 0, 3, 1>>, <<0, 0, 9, 1>>, <<6, 0, 8, 1>>}

AggStyles == {<<100, "black">>, <<120, "red">>, <<140, "black">>}

\* the k-th span in extraction order; its font and flags name it
AggSpan(k, pg, rect, st) ==
  [page |-> pg, rect |-> rect, fontsize |-> st[1], color |-> st[2],
   font |-> "f" \o ToString(k), flags |-> k]

AggShapes == ({0} \X AggRects \X AggStyles)
             \cup {<<1, <<1, 0, 3, 1>>, <<120, "red">>>>}

InitAggregate ==
  /\ aggIn \in {[kind |-> kd, unit |-> CoarseUnit,
                 spans |-> [k \in 1..Len(sh) |->
                              AggSpan(k, sh[k][1], sh[k][2], sh[k][3])]] :
                  kd \in {"line", "block"},
                  sh \in UNION {[1..n -> AggShapes] : n \in 0..MaxAggSpans}}
  /\ aggOut = NoAggOut
  /\ IdleIoU
  /\ IdleStyle
  /\ IdleTable
  /\ IdleRun
  /\ IdleTranslate
  /\ IdleFit
  /\ IdleFill
  /\ IdleErase
  /\ IdleLayout
  /\ IdleFont
  /\ IdleSeg
  /\ IdleAll
  /\ IdleLang

CallDeriveStyles ==
  /\ aggIn # <<>>
  /\ ~aggOut.called
  /\ aggOut' = [called |-> TRUE,
                units |-> IF aggIn.kind = "line"
                          THEN <<derive_line_style(aggIn.unit, aggIn.spans)>>
                          ELSE derive_block_styles_from_spans(<<aggIn.unit>>,
                                                              aggIn.spans)]
  /\ UNCHANGED <<aggIn, iouVars, styleVars, tableVars, runVars, trVars,
                 fitVars, fillVars, eraseVars, layVars, fontVars, segVars,
                 allVars, langVars>>

NextAggregate == CallDeriveStyles

SpecAggregate == InitAggregate /\ [][NextAggregate]_vars

\* ---- properties of SpecAggregate ----

AggThreshold == IF aggIn.kind = "line" THEN 50 ELSE 40

CentroidInside(k) ==
  /\ 2 * aggIn.unit.rect[1] <= aggIn.spans[k].rect[1] + aggIn.spans[k].rect[3]
  /\ aggIn.spans[k].rect[1] + aggIn.spans[k].rect[3] <= 2 * aggIn.unit.rect[3]
  /\ 2 * aggIn.unit.rect[2] <= aggIn.spans[k].rect[2] + aggIn.spans[k].rect[4]
  /\ aggIn.spans[k].rect[2] + aggIn.spans[k].rect[4] <= 2 * aggIn.unit.rect[4]

AggIoU(k) == rect_iou(aggIn.unit.rect, aggIn.spans[k].rect)

\* the spans the claim counts as contributing: same page, and IoU >= the
\* threshold or centroid inside
StatedMatches ==
  {k \in 1..Len(aggIn.spans) :
     /\ aggIn.spans[k].page = aggIn.unit.page
     /\ (FracGEPct(AggIoU(k), AggThreshold) \/ CentroidInside(k))}

\* the same with IoU strictly above the threshold
StrictMatches ==
  {k \in 1..Len(aggIn.spans) :
     /\ aggIn.spans[k].page = aggIn.unit.page
     /\ (FracGT(AggIoU(k), <<AggThreshold, 100>>) \/ CentroidInside(k))}

\* a unit is touched exactly when some span contributes, and font/flags
\* are those of the first contributing span
StyledBy(S) ==
  IF S = {} THEN aggOut.units[1] = aggIn.unit
  ELSE /\ aggOut.units[1].flags = SetMin(S)
       /\ aggOut.units[1].font = aggIn.spans[SetMin(S)].font

\* C22 as stated: the contributing spans are those of the unit's page
\* with IoU >= 0.5 (Line) or >= 0.4 (Block) or with the centroid inside.
C22_AsStated == aggOut.called => StyledBy(StatedMatches)

\* a Block and one span of its page with IoU exactly 0.4 and the centroid
\* outside: the Block keeps its defaults
C22_Diverges ==
  /\ aggOut.called
  /\ aggIn.kind = "block"
  /\ Len(aggIn.spans) = 1
  /\ aggIn.spans[1].page = aggIn.unit.page
  /\ FracEQ(AggIoU(1), <<40, 100>>)
  /\ ~CentroidInside(1)
  /\ aggOut.units[1] = aggIn.unit

MatchSeq == SelectSeq([k \in 1..Len(aggIn.spans) |-> k],
                      LAMBDA k : k \in StrictMatches)

ColorCount(c) ==
  Cardinality({k \in StrictMatches : aggIn.spans[k].color = c})

\* twice the median of the matched sizes
TwiceMedian ==
  LET n == Len(MatchSeq)
      below(k) == Cardinality({j \in StrictMatches :
                     \/ aggIn.spans[j].fontsize < aggIn.spans[k].fontsize
                     \/ (aggIn.spans[j].fontsize = aggIn.spans[k].fontsize /\ j < k)})
      at(i) == aggIn.spans[CHOOSE k \in StrictMatches : below(k) = i - 1].fontsize
  IN IF n % 2 = 1 THEN 2 * at((n + 1) \div 2)
     ELSE at(n \div 2) + at(n \div 2 + 1)

\* C23: with matched spans the unit gets the median of their sizes, their
\* most frequent colour (the first seen among the most frequent), and the
\* font and flags of the first matched span; without it keeps its style.
C23_Aggregate ==
  aggOut.called =>
    IF StrictMatches = {} THEN aggOut.units[1] = aggIn.unit
    ELSE LET u == aggOut.units[1]
             first == MatchSeq[1]
         IN /\ 2 * u.fontsize = TwiceMedian
            /\ \A k \in StrictMatches : ColorCount(aggIn.spans[k].color) <= ColorCount(u.color)
            /\ \A k \in StrictMatches :
                 (ColorCount(aggIn.spans[k].color) = ColorCount(u.color)
                  /\ aggIn.spans[k].color # u.color)
                   => \E j \in StrictMatches : j < k /\ aggIn.spans[j].color = u.color
            /\ u.font = aggIn.spans[first].font
            /\ u.flags = aggIn.spans[first].flags
            /\ u.rect = aggIn.unit.rect /\ u.text = aggIn.unit.text

\* three spans, the first on another page, the others matched with one
\* colour each: the colour and the font of the second span, the mean size
C23_Witness ==
  /\ aggOut.called
  /\ Len(aggIn.spans) = 3
  /\ StrictMatches = {2, 3}
  /\ aggIn.spans[2].color = "red" /\ aggIn.spans[3].color = "black"
  /\ aggIn.spans[3].fontsize = 100
  /\ aggOut.units[1].color = "red"
  /\ aggOut.units[1].font = "f2"
  /\ aggOut.units[1].fontsize = 110

\* a unit without matched span keeps its four style fields
C23_UntouchedReached ==
  /\ aggOut.called
  /\ Len(aggIn.spans) = 2
  /\ StrictMatches = {}
  /\ aggOut.units[1].font = "helv" /\ aggOut.units[1].flags = 0
  /\ aggOut.units[1].fontsize = 115 /\ aggOut.units[1].color = "gray"

\* ======================================================================
\* run_mode from its erase step on (pipeline.py): the erase section of
\* the mode, then the collection, the batch and the render loop of
\* SpecRun, all on the pages of one output document.
\* ======================================================================

\* mutant of erase_step: the erase section without its erase_mode test
erase_step_any_mode(md, us, items, blocks, erase_mode, fails) ==
  LET as_mode == IF erase_mode = "redact" THEN "redact" ELSE "mask"
      seen(xs) == [i \in 1..Len(xs) |-> [page |-> xs[i].page, empty |-> FALSE]]
  IN CASE md \in CoarseModes -> erase_original_text(seen(us), as_mode, fails)
       [] md = "overlay" -> erase_overlay(seen(items), as_mode, fails, <<0>>)
       [] md = "hybrid"  -> erase_hybrid(<<>>, seen(blocks), as_mode, fails, <<0>>)

\* the erase section run_mode takes in mode md: erase_original_text on the
\* spans (pipeline.py:449), the overlay section on the items
\* (pipeline.py:184-215), the hybrid section on the blocks
\* (pipeline.py:323-367); every rect is on its page and not empty, and
\* page 0 is the only page that holds text
erase_step(md, us, items, blocks, erase_mode, fails) ==
  LET seen(xs) == [i \in 1..Len(xs) |-> [page |-> xs[i].page, empty |-> FALSE]]
      order == IF redacted_pages(seen(IF md = "overlay" THEN items ELSE blocks),
                                 erase_mode) = {}
               THEN <<>> ELSE <<0>>
  IN CASE md \in CoarseModes -> erase_original_text(seen(us), erase_mode, fails)
       [] md = "overlay" -> erase_overlay(seen(items), erase_mode, fails, order)
       [] md = "hybrid"  -> erase_hybrid(<<>>, seen(blocks), erase_mode, fails, order)

\* ---------------------------- SpecPipeline ----------------------------

InitPipeline ==
  /\ RunInputs
  /\ translator = "GoogleTranslator"
  /\ pc = "erase"
  /\ eraseIn \in [erase_mode : EraseModes, fails : {{}, {0}}]
  /\ eraseOut = NoEraseOut
  /\ IdleIoU
  /\ IdleStyle
  /\ IdleTable
  /\ IdleTranslate
  /\ IdleFit
  /\ IdleFill
  /\ IdleLayout
  /\ IdleFont
  /\ IdleSeg
  /\ IdleAgg
  /\ IdleAll
  /\ IdleLang

\* the erase section of the mode; the spans of the text layer are taken
\* one per unit
EraseStep ==
  /\ pc = "erase"
  /\ LET rv == erase_step(mode, units, overlay_items, hblocks,
                          eraseIn.erase_mode, eraseIn.fails)
     IN /\ page_ops' = rv.log
        /\ eraseOut' = [called |-> TRUE, log |-> rv.log, raised |-> rv.raised]
        /\ pc' = IF rv.raised THEN "raised" ELSE "collect"
  /\ UNCHANGED <<mode, translator, units, hblocks, overlay_items, requests,
                 map_back, indices, futs, arrival, results>>
  /\ UNCHANGED <<eraseIn, iouVars, styleVars, tableVars, trVars, fitVars,
                 fillVars, layVars, fontVars, segVars, aggVars, allVars,
                 langVars>>

NextPipeline == EraseStep \/ NextRun

SpecPipeline == InitPipeline /\ [][NextPipeline]_vars

\* ---- properties of SpecPipeline ----

IsEraseOp(i) == "ev" \in DOMAIN page_ops[i]

\* C26: on the output pages every erase operation (draw_rect,
\* add_redact_annot, apply_redactions) precedes every draw of translated
\* text, and with an erase_mode other than mask and redact there is no
\* erase operation at all.
C26_EraseFirst ==
  eraseOut.called =>
    /\ \A i, j \in 1..Len(page_ops) :
         (IsEraseOp(j) /\ ~IsEraseOp(i)) => j < i
    /\ eraseIn.erase_mode \notin {"mask", "redact"} =>
         \A i \in 1..Len(page_ops) : ~IsEraseOp(i)
    /\ eraseIn.erase_mode = "mask" =>
         \A i \in 1..Len(page_ops) : IsEraseOp(i) => page_ops[i].ev = "draw_rect"

\* a redact run that erased two rects, applied the redactions and then
\* drew two translated units
C26_Witness ==
  /\ pc = "saved"
  /\ eraseIn.erase_mode = "redact"
  /\ Len(page_ops) = 5
  /\ IsEraseOp(1) /\ IsEraseOp(2) /\ IsEraseOp(3)
  /\ page_ops[3].ev = "apply"
  /\ ~IsEraseOp(4) /\ ~IsEraseOp(5)

\* a run without erase that drew
C26_NoEraseReached ==
  /\ pc = "saved"
  /\ eraseIn.erase_mode = "none"
  /\ Len(page_ops) >= 2
  /\ mode = "overlay"

\* ======================================================================
\* run_mode(mode="all") (pipeline.py): the sub-runs and the zip.  A
\* document is the number of its handle: 1 and 2 are the src and out
\* handed in, fitz.open() yields the next unused number.  An output file
\* is named by its label.
\* ======================================================================

\* mutant of fresh_src_out: every sub-run works on the documents handed in
shared_src_out(opened) == <<1, 2>>

\* _fresh_src_out(): s = fitz.open(src_path); o = fitz.open()
fresh_src_out(opened) == <<opened + 1, opened + 2>>

\* mutant of zip_members: every expected output that exists is zipped
zip_members_on_disk(out_files, disk) ==
  SelectSeq(<<"span", "line", "block", "hybrid", "overlay">>,
            LAMBDA label : label \in disk)

\* for label, path in out_files: if os.path.exists(path): zf.write(...)
zip_members(out_files, disk) ==
  SelectSeq(out_files, LAMBDA label : label \in disk)

\* the sub-mode after sm: for sub_mode in ("span", "line", "block",
\* "hybrid"), then if overlay_items: ... "overlay", then the zip
next_sub_mode(sm, has_overlay) ==
  CASE sm = "span"   -> "line"
    [] sm = "line"   -> "block"
    [] sm = "block"  -> "hybrid"
    [] sm = "hybrid" -> IF has_overlay THEN "overlay" ELSE "zip"
    [] sm = "overlay" -> "zip"

SubModes == {"span", "line", "block", "hybrid", "overlay"}

\* ------------------------------ SpecAll -------------------------------

\* src comes from a real file or not, overlay_items is given or not, and
\* files of an earlier run may lie where the outputs go
InitAll ==
  /\ allIn \in [src_ok : BOOLEAN, has_overlay : BOOLEAN,
                stale : SUBSET {"span", "hybrid", "overlay"}]
  /\ allOut = [NoAllOut EXCEPT !.pc = "start", !.disk = allIn.stale,
                               !.opened = 2]
  /\ IdleIoU
  /\ IdleStyle
  /\ IdleTable
  /\ IdleRun
  /\ IdleTranslate
  /\ IdleFit
  /\ IdleFill
  /\ IdleErase
  /\ IdleLayout
  /\ IdleFont
  /\ IdleSeg
  /\ IdleAgg
  /\ IdleLang

AllFrame ==
  UNCHANGED <<allIn, iouVars, styleVars, tableVars, runVars, trVars, fitVars,
              fillVars, eraseVars, layVars, fontVars, segVars, aggVars,
              langVars>>

\* the src.name test, out.close() and src.close()
AllStart ==
  /\ allIn # <<>>
  /\ allOut.pc = "start"
  /\ allOut' = IF allIn.src_ok
               THEN [allOut EXCEPT !.pc = "span"]
               ELSE [allOut EXCEPT !.pc = "raised", !.raised = TRUE]
  /\ AllFrame

\* one pass of a try block: the documents are opened or fitz.open raises;
\* the sub-run saves its output and returns, or raises before the save
SubRun ==
  /\ allIn # <<>>
  /\ allOut.pc \in SubModes
  /\ \E outcome \in {"saved", "raised", "noopen"} :
       LET sm   == allOut.pc
           docs == IF outcome = "noopen" THEN <<0, 0>>
                   ELSE fresh_src_out(allOut.opened)
       IN allOut' =
            [allOut EXCEPT
               !.pc = next_sub_mode(sm, allIn.has_overlay),
               !.opened = IF outcome = "noopen" THEN @ ELSE @ + 2,
               !.runs = Append(@, [sub_mode |-> sm, src |-> docs[1],
                                   out |-> docs[2], outcome |-> outcome]),
               !.outputs = IF outcome = "saved" THEN Append(@, sm) ELSE @,
               !.disk = IF outcome = "saved" THEN @ \cup {sm} ELSE @]
  /\ AllFrame

\* with zipfile.ZipFile(zip_path, "w", ...) as zf: ...
WriteZip ==
  /\ allIn # <<>>
  /\ allOut.pc = "zip"
  /\ allOut' = [allOut EXCEPT !.pc = "done", !.zipped = TRUE,
                              !.zip = zip_members(allOut.outputs, allOut.disk)]
  /\ AllFrame

NextAll == AllStart \/ SubRun \/ WriteZip

SpecAll == InitAll /\ [][NextAll]_vars

\* ---- properties of SpecAll ----

ExpectedSubModes ==
  IF allIn.has_overlay THEN <<"span", "line", "block", "hybrid", "overlay">>
  ELSE <<"span", "line", "block", "hybrid">>

RunsSoFar == [i \in 1..Len(allOut.runs) |-> allOut.runs[i].sub_mode]

Completed == SelectSeq(RunsSoFar,
               LAMBDA sm : \E i \in 1..Len(allOut.runs) :
                             /\ allOut.runs[i].sub_mode = sm
                             /\ allOut.runs[i].outcome = "saved")

C27_ZipWritten == (allOut.pc = "span") ~> (allOut.pc = "done")

C27_NoOverlayReached ==
  /\ allOut.pc = "done"
  /\ ~allIn.has_overlay
  /\ Len(allOut.runs) = 4
  /\ Len(allOut.zip) = 4

FairAll == SpecAll /\ WF_vars(NextAll)

\* ======================================================================
\* The worker pool of the batch (SpecRun).
\* ======================================================================

InFlight == Cardinality({i \in 1..Len(futs) : futs[i].st = "running"})

\* C28 as stated: with a GoogleTranslator at most one translate call is in
\* flight in every mode, with any other translator at most 5.
C28_AsStated ==
  InFlight <= (IF translator = "GoogleTranslator" THEN 1 ELSE 5)

\* a span run with a GoogleTranslator and two translate calls in flight
C28_Diverges ==
  /\ mode = "span"
  /\ translator = "GoogleTranslator"
  /\ pc = "translate"
  /\ InFlight = 2

\* the hybrid and overlay batches of a GoogleTranslator run one call at a
\* time
C28_HybridOverlaySerial ==
  (translator = "GoogleTranslator" /\ mode \in {"hybrid", "overlay"}) =>
    InFlight <= 1

\* ======================================================================
\* Translation direction (utils.py choose_langs and _dominant_script, and
\* the direction code of run_mode's modes).  A text is a sequence of
\* characters: a Devanagari letter, a Latin letter, a digit, a space.
\* ======================================================================

DEV == {"d"}       \* stands for the characters of [\u0900-\u097F]
LAT == {"a", "b"}  \* stands for the characters of [A-Za-z]

\* len(pattern.findall(text))
findall_count(chars, text) ==
  Cardinality({i \in 1..Len(text) : text[i] \in chars})

\* utils.py _dominant_script
dominant_script(text) ==
  LET dev == findall_count(DEV, text)
      lat == findall_count(LAT, text)
  IN IF dev > lat THEN "hi" ELSE IF lat > dev THEN "en" ELSE "auto"

\* utils.py choose_langs
choose_langs(text, translate_dir) ==
  IF translate_dir = "hi->en" THEN <<"hi", "en">>
  ELSE IF translate_dir = "en->hi" THEN <<"en", "hi">>
  ELSE LET sl == dominant_script(text)
       IN IF sl = "hi" THEN <<"hi", "en">>
          ELSE IF sl = "en" THEN <<"en", "hi">>
          ELSE <<"hi", "en">>

\* run_mode, the direction of a span, line or block request, and the
\* sl_def, dl_def of a hybrid block
unit_direction(text, translate_dir) ==
  CASE translate_dir = "hi->en" -> <<"hi", "en">>
    [] translate_dir = "en->hi" -> <<"en", "hi">>
    [] translate_dir = "en->vi" -> <<"en", "vi">>
    [] OTHER ->
         LET sl == dominant_script(text)
             dl == IF sl = "hi" THEN "en" ELSE "hi"
         IN IF sl \notin {"hi", "en"} THEN <<"hi", "en">> ELSE <<sl, dl>>

\* mutant of overlay_direction: the direction of the other modes
overlay_direction_as_units(text, translate_dir) ==
  unit_direction(text, translate_dir)

\* run_mode, mode == "overlay", the direction of an item's request
overlay_direction(text, translate_dir) ==
  CASE translate_dir = "hi->en" -> <<"hi", "en">>
    [] translate_dir = "en->hi" -> <<"en", "hi">>
    [] translate_dir = "en->vi" -> <<"en", "vi">>
    [] OTHER ->
         LET sl_detect == dominant_script(text)
             d == IF sl_detect = "hi" THEN "en"
                  ELSE IF sl_detect = "en" THEN "vi" ELSE "en"
         IN IF sl_detect \notin {"hi", "en"} THEN <<"hi", "en">>
            ELSE <<sl_detect, d>>

\* the direction site gives to the request for text: in hybrid mode a
\* segment of a table-like block ("hybrid_seg") gets the direction of the
\* text of its block, text \o rest
direction_at(site, text, rest, translate_dir) ==
  CASE site = "choose_langs" -> choose_langs(text, translate_dir)
    [] site \in {"span", "line", "block", "hybrid"} ->
         unit_direction(text, translate_dir)
    [] site = "hybrid_seg" -> unit_direction(text \o rest, translate_dir)
    [] site = "overlay" -> overlay_direction(text, translate_dir)

\* ------------------------------ SpecLang ------------------------------

MaxText == 3

Texts == UNION {[1..n -> {"d", "a", "b", "1"}] : n \in 0..MaxText}

Sites == {"choose_langs", "span", "line", "block", "hybrid", "hybrid_seg",
          "overlay"}

InitLang ==
  /\ langIn \in [text : Texts, rest : {<<>>, <<" ", "d", "d">>, <<" ", "a", "b">>},
                 translate_dir : {"auto", "hi->en", "en->hi"}]
  /\ langOut = NoLangOut
  /\ IdleIoU
  /\ IdleStyle
  /\ IdleTable
  /\ IdleRun
  /\ IdleTranslate
  /\ IdleFit
  /\ IdleFill
  /\ IdleErase
  /\ IdleLayout
  /\ IdleFont
  /\ IdleSeg
  /\ IdleAgg
  /\ IdleAll

CallDirection ==
  /\ langIn # <<>>
  /\ ~langOut.called
  /\ \E site \in Sites :
       langOut' = [called |-> TRUE, site |-> site,
                   pair |-> direction_at(site, langIn.text, langIn.rest,
                                         langIn.translate_dir)]
  /\ UNCHANGED <<langIn, iouVars, styleVars, tableVars, runVars, trVars,
                 fitVars, fillVars, eraseVars, layVars, fontVars, segVars,
                 aggVars, allVars>>

NextLang == CallDirection

SpecLang == InitLang /\ [][NextLang]_vars

\* ---- properties of SpecLang ----

DevLetters == Cardinality({i \in 1..Len(langIn.text) : langIn.text[i] = "d"})

LatLetters == Cardinality({i \in 1..Len(langIn.text) :
                             langIn.text[i] \in {"a", "b"}})

StatedPair ==
  IF LatLetters > DevLetters THEN <<"en", "hi">> ELSE <<"hi", "en">>

\* C29 as stated: with translate_dir 'auto' choose_langs and every mode
\* give a text the pair hi->en when its Devanagari letters outnumber its
\* Latin letters or tie with them, and en->hi when its Latin letters
\* outnumber its Devanagari letters; source and target differ.
C29_AsStated ==
  (langOut.called /\ langIn.translate_dir = "auto") =>
    /\ langOut.pair = StatedPair
    /\ langOut.pair[1] # langOut.pair[2]

\* an overlay item with a Latin text goes from en to vi
C29_Diverges ==
  /\ langOut.called
  /\ langIn.translate_dir = "auto"
  /\ langOut.site = "overlay"
  /\ langIn.text = <<"a", "b">>
  /\ langOut.pair = <<"en", "vi">>

\* a Latin segment of a table-like hybrid block whose text is mostly
\* Devanagari goes from hi to en
C29_SegmentDiverges ==
  /\ langOut.called
  /\ langIn.translate_dir = "auto"
  /\ langOut.site = "hybrid_seg"
  /\ langIn.text = <<"a">>
  /\ langIn.rest = <<" ", "d", "d">>
  /\ langOut.pair = <<"hi", "en">>

\* choose_langs and the span, line, block and whole-block hybrid requests
\* follow the stated rule
C29_UnitsAgree ==
  (/\ langOut.called
   /\ langIn.translate_dir = "auto"
   /\ langOut.site \in {"choose_langs", "span", "line", "block", "hybrid"}) =>
    /\ langOut.pair = StatedPair
    /\ langOut.pair[1] # langOut.pair[2]

\* ======================================================================
\* Column containment of the segments of a table-like block (SpecTable,
\* SpecRun).
\* ======================================================================

Contains(c, sx) == c[1] <= sx[1] /\ sx[2] <= c[2]

\* C30 as stated: when a hybrid run is over, every segment of positive
\* width of a table-like block has been placed into a band of
\* build_columns whose x-range contains the segment's x-range, and every
\* segment's x-range lies within some band.
C30_AsStated ==
  (mode = "hybrid" /\ RunOver) =>
    \A k \in 1..Len(map_back) :
      map_back[k].type = "seg" =>
        LET info == map_back[k]
            seg  == hblocks[info.b].lines[info.l].segments[info.s]
            sx   == <<seg.rect[1], seg.rect[3]>>
            cols == build_columns(hblocks[info.b])
        IN /\ \E i \in 1..Len(cols) : Contains(cols[i], sx)
           /\ sx[2] > sx[1] =>
                \E d \in 1..Len(page_ops), i \in 1..Len(cols) :
                  /\ page_ops[d].unit = <<info.b, info.l, info.s>>
                  /\ <<page_ops[d].rect[1], page_ops[d].rect[3]>> = cols[i]
                  /\ Contains(cols[i], sx)

\* a hybrid run over a table-like block whose first segment [10,100] lies
\* within the first band ended without any segment placed
C30_Diverges ==
  /\ mode = "hybrid"
  /\ pc = "raised"
  /\ Len(results) = Len(requests)
  /\ Len(map_back) >= 2
  /\ map_back[1].type = "seg"
  /\ hblocks[1].lines[1].segments[1].rect[1] = 10
  /\ hblocks[1].lines[1].segments[1].rect[3] = 100
  /\ Contains(map_back[1].cols[1], <<10, 100>>)
  /\ page_ops = <<>>

\* build_columns and the best_col expression taken alone: every segment
\* range of the block lies within a band, and a segment of the block is
\* assigned to a band that contains it
C30_FunctionsContain ==
  /\ tableOut.step >= 2 =>
       \A sx \in OwnRanges : \E i \in 1..Len(tableOut.cols) :
         Contains(tableOut.cols[i], sx)
  /\ (tableOut.step = 3 /\ tableOut.seg \in OwnRanges
      /\ tableOut.seg[2] > tableOut.seg[1]) =>
       /\ \E i \in 1..Len(tableOut.cols) : tableOut.cols[i] = tableOut.col
       /\ Contains(tableOut.col, tableOut.seg)

\* two bands that overlap, and a segment assigned to the second
C30_OverlappingBandsReached ==
  /\ tableOut.step = 3
  /\ tableOut.table_like
  /\ tableOut.cols = <<<<10, 100>>, <<95, 240>>>>
  /\ tableOut.seg = <<95, 240>>
  /\ tableOut.col = <<95, 240>>

====
